---- MODULE Spec2Model ----
(***************************************************************************)
(* Verification model of the editor application:                           *)
(*   - the PlantUML diagram-text encoder of views/DesignStudio.vue         *)
(*     (encodePlantUML, encode64, append3bytes);                           *)
(*   - the AI configuration load paths of components/AIConfigModal.vue     *)
(*     and views/DesignStudio.vue;                                         *)
(*   - the asynchronous document handlers of views/DesignStudio.vue        *)
(*     (loadDocument, generatePlantUMLFromInput,                           *)
(*     generatePlantUMLFromSelection).                                     *)
(* Strings are sequences: a JavaScript string is a sequence of UTF-16 code *)
(* units, a binary string a sequence of char codes 0..255, an output token *)
(* a sequence of one-character strings.                                    *)
(***************************************************************************)
EXTENDS Integers, Sequences, FiniteSets, TLC

VARIABLES
    \* ---- encoder (encodePlantUML called on one input) ----
    encText,        \* the argument `text`: a sequence of UTF-16 code units
    encTryThrows,   \* environment: the try block throws (pako.deflate or the spread)
    encOut,         \* outcome of the call: none / return value / exception
    encPassed,      \* the binary string handed to encode64 (char codes), if any
    encAgain,       \* outcome of a second call with the same argument, if made
    \* ---- encode64 called on one byte string ----
    e64Data,        \* the argument `data` of encode64: char codes 0..255
    e64Out,         \* its result, or <<"none">> before the call
    \* ---- persisted configuration and AIConfigModal.vue ----
    localStorage,   \* the item 'ai-flow-studio-ai-config' of localStorage
    modalMounted,   \* AIConfigModal's onMounted hook has run
    config,         \* AIConfigModal: config.value (field name -> JSON text of the value)
    watchPending,   \* AIConfigModal: the watcher of config.provider is queued
    lastCfgOp,      \* AIConfigModal: the handler that ran last (none/load/select/reset)
    \* ---- DesignStudio.vue ----
    mounted,        \* DesignStudio's onMounted hook has run
    editor,         \* editor.value is an Editor instance (TRUE) or null (FALSE)
    editorContent,  \* the markdown held by the Toast UI editor
    docContent,     \* docContent.value
    currentFile,    \* currentFile.value
    savedFiles,     \* savedFiles.value
    isGenerating,   \* isGenerating.value
    aiInput,        \* aiInput.value
    showAiPanel,    \* showAiPanel.value
    selectedText,   \* selectedText.value
    selection,      \* the text selected in the editor (what getSelectedText returns)
    toastMessage,   \* toastMessage.value
    aiConfig,       \* aiConfig.value (field name -> JSON text of the value)
    pending,        \* host commands issued by invoke() and not yet answered
    nextId,         \* number of host commands issued so far
    edits,          \* number of user edits of the document so far
    lastReply,      \* how the host answered the command handled last
    generated,      \* number of diagram generations that ran to their end
    \* ---- the metrics dashboard (part_001) ----
    metrics,        \* metrics.value: the records as the host returned them
    chartData,      \* the value of the computed chartData, or <<"none">> before it is read
    \* ---- the template library RemoteTemplates (three variants) ----
    tplVariant,     \* which variant of the component runs: demo / fetch / command
    tplUrl,         \* props.templateUrl
    templates,      \* templates.value
    tplError,       \* error.value: "null" or a message
    tplLoading,     \* isLoading.value
    tplReq,         \* the remote operations that calls of loadTemplates await, oldest first
    tplOutcome,     \* how the remote operation of the load that ran last ended
    tplLoads,       \* number of calls of loadTemplates so far
    \* ---- the application as a whole ----
    view,           \* the component the user works with in this run
    isSaving,       \* DesignStudio: isSaving.value
    \* ---- CodeHubAssistant.vue ----
    hubMounted,     \* the onMounted hook has run
    mrUrl,          \* mrUrl.value
    isWebviewOpen,  \* isWebviewOpen.value
    isCapturing,    \* isCapturing.value
    isProcessingRAG, \* isProcessingRAG.value
    reviewComments, \* reviewComments.value
    ragPairs,       \* ragPairs.value
    activeTab,      \* activeTab.value
    hubAlert,       \* the text of the alert() shown last
    \* ---- TemplateUploadModal.vue ----
    uplShow,        \* the modal is shown (showTemplateUpload of the parent)
    uplTitle,       \* title.value
    isUploading,    \* isUploading.value
    uploadResult,   \* uploadResult.value: none / success / failure
    showSuccess,    \* showSuccess.value
    uplTimers,      \* timers of 1500 ms set by handleUpload and not yet fired
    uplEmitted,     \* 'uploaded' has been emitted
    localTemplates, \* the item 'ai-flow-studio-local-templates' of localStorage
    storageFull,    \* environment: localStorage.setItem throws (quota exceeded)
    lastRequested,  \* the file name passed to the latest call of loadDocument, "" before
    acStored,       \* the item 'app-config' of localStorage
    acConfig,       \* ConfigModal: config.value
    acMounted,      \* ConfigModal's onMounted hook has run
    tplShow         \* props.show of the template library

encVars == <<encText, encTryThrows, encOut, encPassed, encAgain>>
e64Vars == <<e64Data, e64Out>>
cfgVars == <<localStorage, modalMounted, config, watchPending, lastCfgOp>>
studioVars == <<mounted, editor, editorContent, docContent, currentFile, savedFiles,
                isGenerating, aiInput, showAiPanel, selectedText, selection,
                toastMessage, aiConfig, pending, nextId, edits, lastReply,
                generated>>

chartVars == <<metrics, chartData>>
tplVars == <<tplVariant, tplUrl, templates, tplError, tplLoading, tplReq, tplOutcome, tplLoads>>
appVars == <<view, isSaving>>
hubVars == <<hubMounted, mrUrl, isWebviewOpen, isCapturing, isProcessingRAG, reviewComments,
             ragPairs, activeTab, hubAlert>>
uplVars == <<uplShow, uplTitle, isUploading, uploadResult, showSuccess, uplTimers, uplEmitted,
             localTemplates, storageFull>>
\* the variables of the components modelled beside the editor view
docVars == <<lastRequested>>
acVars == <<acStored, acConfig, acMounted>>
libVars == <<tplShow>>
lateVars == <<docVars, acVars, libVars>>
moreVars == <<chartVars, tplVars, appVars, hubVars, uplVars, lateVars>>

\* ---------- bounds of the model ----------
\* longest input text, in UTF-16 code units
MaxLen == 3
\* longest byte string given to encode64 alone
MaxBytes == 4

\* ---------- generic helpers ----------
Pow2(n) == 2 ^ n

Min(a, b) == IF a < b THEN a ELSE b

\* all sequences over S of length at most n
SeqsUpTo(S, n) == UNION { [1..k -> S] : k \in 0..n }

RECURSIVE Concat(_)
\* concatenation of a sequence of sequences
Concat(ss) == IF ss = <<>> THEN <<>> ELSE Head(ss) \o Concat(Tail(ss))

RECURSIVE BitOr(_, _)
\* JavaScript a | b on non-negative integers
BitOr(a, b) ==
    IF a = 0 THEN b
    ELSE IF b = 0 THEN a
    ELSE (IF (a % 2 = 1) \/ (b % 2 = 1) THEN 1 ELSE 0) + 2 * BitOr(a \div 2, b \div 2)

RECURSIVE BitAnd(_, _)
\* JavaScript a & b on non-negative integers
BitAnd(a, b) ==
    IF a = 0 \/ b = 0 THEN 0
    ELSE (IF (a % 2 = 1) /\ (b % 2 = 1) THEN 1 ELSE 0) + 2 * BitAnd(a \div 2, b \div 2)

\* JavaScript a >> n and a << n on small non-negative integers
Shr(a, n) == a \div Pow2(n)
Shl(a, n) == a * Pow2(n)

\* the n low bits of v, most significant first / least significant first
BitsMSB(v, n) == [i \in 1..n |-> (v \div Pow2(n - i)) % 2]
BitsLSB(v, n) == [i \in 1..n |-> (v \div Pow2(i - 1)) % 2]

\* ---------- input strings ----------
\* UTF-16 code units the inputs are drawn from:
\*   65 'A', 233 U+00E9, 20013 U+4E2D, 55357 high surrogate D83D, 56832 low surrogate DE00
CodeUnits == {65, 233, 20013, 55357, 56832}

IsHigh(u) == u >= 55296 /\ u <= 56319
IsLow(u) == u >= 56320 /\ u <= 57343

RECURSIVE CodePoints(_)
\* The scalar values a well-formed reading of the string yields; a surrogate that
\* is not part of a pair is reported as -1.
CodePoints(s) ==
    IF s = <<>> THEN <<>>
    ELSE IF IsHigh(s[1]) /\ Len(s) >= 2 /\ IsLow(s[2])
         THEN <<65536 + (s[1] - 55296) * 1024 + (s[2] - 56320)>>
                  \o CodePoints(SubSeq(s, 3, Len(s)))
    ELSE IF IsHigh(s[1]) \/ IsLow(s[1])
         THEN <<-1>> \o CodePoints(Tail(s))
    ELSE <<s[1]>> \o CodePoints(Tail(s))

HasLoneSurrogate(s) == \E i \in DOMAIN CodePoints(s) : CodePoints(s)[i] = -1

\* UTF-8 bytes of one scalar value
Utf8Of(cp) ==
    IF cp < 128 THEN <<cp>>
    ELSE IF cp < 2048 THEN <<192 + (cp \div 64), 128 + (cp % 64)>>
    ELSE IF cp < 65536
         THEN <<224 + (cp \div 4096), 128 + ((cp \div 64) % 64), 128 + (cp % 64)>>
    ELSE <<240 + (cp \div 262144), 128 + ((cp \div 4096) % 64),
           128 + ((cp \div 64) % 64), 128 + (cp % 64)>>

\* new TextEncoder().encode(text): UTF-8, a lone surrogate becomes U+FFFD
TextEncoderEncode(text) ==
    LET cps == CodePoints(text)
    IN  Concat([i \in DOMAIN cps |-> Utf8Of(IF cps[i] = -1 THEN 65533 ELSE cps[i])])

\* ---------- pako.deflate(data, { level: 9 }) ----------
\* pako is a port of zlib.  deflate() without the raw option writes a zlib
\* stream: a 2-byte header, the DEFLATE body, the Adler-32 of the input.  The
\* body is modelled for the short inputs of this model, for which zlib emits a
\* single final block with the fixed Huffman codes (deflate_slow's lazy
\* matching decides the literals and matches).

\* zlib's MIN_MATCH, MAX_MATCH and TOO_FAR
ZMinMatch == 3
ZMaxMatch == 258
ZTooFar == 4096

\* zlib's base_length[] and extra_lbits[] (length codes 257..285), index 1..29
ZBaseLength == <<0, 1, 2, 3, 4, 5, 6, 7, 8, 10, 12, 14, 16, 20, 24, 28, 32, 40, 48, 56,
                 64, 80, 96, 112, 128, 160, 192, 224, 255>>
ZExtraLBits == <<0, 0, 0, 0, 0, 0, 0, 0, 1, 1, 1, 1, 2, 2, 2, 2, 3, 3, 3, 3,
                 4, 4, 4, 4, 5, 5, 5, 5, 0>>
\* zlib's base_dist[] and extra_dbits[] (distance codes 0..29), index 1..30
ZBaseDist == <<0, 1, 2, 3, 4, 6, 8, 12, 16, 24, 32, 48, 64, 96, 128, 192, 256, 384, 512,
               768, 1024, 1536, 2048, 3072, 4096, 6144, 8192, 12288, 16384, 24576>>
ZExtraDBits == <<0, 0, 0, 0, 1, 1, 2, 2, 3, 3, 4, 4, 5, 5, 6, 6, 7, 7, 8, 8,
                 9, 9, 10, 10, 11, 11, 12, 12, 13, 13>>

\* index (1-based) of the last entry of the ascending table t that is <= v
TableIndex(t, v) == CHOOSE i \in DOMAIN t :
                        /\ t[i] <= v
                        /\ \A j \in DOMAIN t : t[j] <= v => j <= i

\* the fixed Huffman code of literal/length symbol sym (static_ltree), MSB first
ZStaticLCode(sym) ==
    IF sym <= 143 THEN BitsMSB(48 + sym, 8)
    ELSE IF sym <= 255 THEN BitsMSB(400 + (sym - 144), 9)
    ELSE IF sym <= 279 THEN BitsMSB(sym - 256, 7)
    ELSE BitsMSB(192 + (sym - 280), 8)

\* bits of one literal byte
ZLiteralBits(b) == ZStaticLCode(b)

\* bits of one match: length code, its extra bits, 5-bit distance code, its extra bits
ZMatchBits(len, dist) ==
    LET lc == TableIndex(ZBaseLength, len - ZMinMatch)
        dc == TableIndex(ZBaseDist, dist - 1)
    IN  ZStaticLCode(256 + lc)
            \o BitsLSB((len - ZMinMatch) - ZBaseLength[lc], ZExtraLBits[lc])
            \o BitsMSB(dc - 1, 5)
            \o BitsLSB((dist - 1) - ZBaseDist[dc], ZExtraDBits[dc])

\* number of bytes equal at positions p and s (0-based) of data, at most limit
RECURSIVE ZEqualRun(_, _, _, _)
ZEqualRun(data, p, s, limit) ==
    IF limit = 0 \/ data[p + 1] # data[s + 1] THEN 0
    ELSE 1 + ZEqualRun(data, p + 1, s + 1, limit - 1)

\* longest_match at strstart s with the previous length prevLen: the hash chain
\* holds the earlier positions with the same three bytes, position 0 excepted
\* (0 is NIL); a candidate replaces the best only when strictly longer, so the
\* nearest of the longest wins.  Result: <<length, start>>, <<prevLen, -1>> when
\* no candidate is longer than prevLen.
ZLongestMatch(data, s, prevLen) ==
    LET lookahead == Len(data) - s
        limit == Min(ZMaxMatch, lookahead)
        cands == { p \in 1..(s - 1) : ZEqualRun(data, p, s, limit) >= ZMinMatch }
        best == IF cands = {} THEN 0
                ELSE CHOOSE l \in 0..limit :
                        /\ \E p \in cands : ZEqualRun(data, p, s, limit) = l
                        /\ \A p \in cands : ZEqualRun(data, p, s, limit) <= l
    IN  IF best > prevLen
        THEN <<best, CHOOSE p \in cands :
                        /\ ZEqualRun(data, p, s, limit) = best
                        /\ \A q \in cands : ZEqualRun(data, q, s, limit) = best => q <= p>>
        ELSE <<prevLen, -1>>

\* deflate_slow: the literal/match symbols of data from strstart s on, as bits.
\* mlen, mstart: match_length and match_start left by the previous step;
\* avail: match_available.
RECURSIVE ZDeflateSlow(_, _, _, _, _)
ZDeflateSlow(data, s, mlen, mstart, avail) ==
    IF s >= Len(data)
    THEN IF avail THEN ZLiteralBits(data[s]) ELSE <<>>
    ELSE
      LET lookahead == Len(data) - s
          prevLen == mlen
          prevMatch == mstart
          hasChain == /\ lookahead >= ZMinMatch
                      /\ \E p \in 1..(s - 1) : ZEqualRun(data, p, s, ZMinMatch) = ZMinMatch
          found == IF hasChain /\ prevLen < ZMaxMatch
                   THEN ZLongestMatch(data, s, prevLen)
                   ELSE <<ZMinMatch - 1, -1>>
          newStart == IF found[2] = -1 THEN prevMatch ELSE found[2]
          newLen == IF found[1] = ZMinMatch /\ s - newStart > ZTooFar
                    THEN ZMinMatch - 1 ELSE found[1]
      IN  IF prevLen >= ZMinMatch /\ newLen <= prevLen
          THEN ZMatchBits(prevLen, (s - 1) - prevMatch)
                   \o ZDeflateSlow(data, (s - 1) + prevLen, ZMinMatch - 1, newStart, FALSE)
          ELSE IF avail
          THEN ZLiteralBits(data[s]) \o ZDeflateSlow(data, s + 1, newLen, newStart, TRUE)
          ELSE ZDeflateSlow(data, s + 1, newLen, newStart, TRUE)

\* bits to bytes, least significant bit first, the last byte padded with zeros
RECURSIVE ZPackBits(_)
ZPackBits(bits) ==
    IF bits = <<>> THEN <<>>
    ELSE LET n == Min(8, Len(bits))
             byte == LET RECURSIVE Sum(_)
                         Sum(i) == IF i > n THEN 0 ELSE bits[i] * Pow2(i - 1) + Sum(i + 1)
                     IN  Sum(1)
         IN  <<byte>> \o ZPackBits(SubSeq(bits, n + 1, Len(bits)))

\* the DEFLATE body: one final block (BFINAL = 1), fixed Huffman codes (BTYPE = 01),
\* the symbols, the end-of-block symbol 256
DeflateRaw(data) ==
    ZPackBits(<<1>> \o BitsLSB(1, 2)
                  \o ZDeflateSlow(data, 0, ZMinMatch - 1, 0, FALSE)
                  \o ZStaticLCode(256))

\* Adler-32 of data as its four bytes, most significant first
Adler32(data) ==
    LET RECURSIVE A(_)
        A(i) == IF i = 0 THEN 1 ELSE (A(i - 1) + data[i]) % 65521
        RECURSIVE B(_)
        B(i) == IF i = 0 THEN 0 ELSE (B(i - 1) + A(i)) % 65521
        a == A(Len(data))
        b == B(Len(data))
    IN  <<b \div 256, b % 256, a \div 256, a % 256>>

\* pako.deflate(data, { level: 9 }): zlib header 78 DA (CM = 8, CINFO = 7,
\* FLEVEL = 3 for level 9), body, Adler-32
PakoDeflate(data) == <<120, 218>> \o DeflateRaw(data) \o Adler32(data)

\* ---------- encode64 / append3bytes ----------
\* the constant `chars` of append3bytes
PlantUMLChars ==
    <<"0", "1", "2", "3", "4", "5", "6", "7", "8", "9",
      "A", "B", "C", "D", "E", "F", "G", "H", "I", "J", "K", "L", "M",
      "N", "O", "P", "Q", "R", "S", "T", "U", "V", "W", "X", "Y", "Z",
      "a", "b", "c", "d", "e", "f", "g", "h", "i", "j", "k", "l", "m",
      "n", "o", "p", "q", "r", "s", "t", "u", "v", "w", "x", "y", "z",
      "-", "_">>

\* chars.charAt(c)
CharAt(chars, c) == IF c + 1 \in DOMAIN chars THEN <<chars[c + 1]>> ELSE <<>>

\* mutant: the mask of c2 keeps one bit of b1 instead of two
Append3bytes_mask(b1, b2, b3) ==
    LET c1 == Shr(b1, 2)
        c2 == BitOr(Shl(BitAnd(b1, 1), 4), Shr(b2, 4))
        c3 == BitOr(Shl(BitAnd(b2, 15), 2), Shr(b3, 6))
        c4 == BitAnd(b3, 63)
    IN  CharAt(PlantUMLChars, c1) \o CharAt(PlantUMLChars, c2)
            \o CharAt(PlantUMLChars, c3) \o CharAt(PlantUMLChars, c4)

Append3bytes(b1, b2, b3) ==
    LET c1 == Shr(b1, 2)
        c2 == BitOr(Shl(BitAnd(b1, 3), 4), Shr(b2, 4))
        c3 == BitOr(Shl(BitAnd(b2, 15), 2), Shr(b3, 6))
        c4 == BitAnd(b3, 63)
    IN  CharAt(PlantUMLChars, c1) \o CharAt(PlantUMLChars, c2)
            \o CharAt(PlantUMLChars, c3) \o CharAt(PlantUMLChars, c4)

\* the loop of encode64 from index i (0-based) on; data: char codes
RECURSIVE Encode64From(_, _)
Encode64From(data, i) ==
    IF ~(i < Len(data)) THEN <<>>
    ELSE (IF i + 2 = Len(data)
          THEN Append3bytes(data[i + 1], data[i + 2], 0)
          ELSE IF i + 1 = Len(data)
          THEN Append3bytes(data[i + 1], 0, 0)
          ELSE Append3bytes(data[i + 1], data[i + 2], data[i + 3]))
         \o Encode64From(data, i + 3)

\* mutant: an incomplete last group yields only the characters its bytes fill
\* (2 for one byte, 3 for two), as unpadded base64 does
RECURSIVE Encode64_short(_)
Encode64_short(data) ==
    IF Len(data) = 0 THEN <<>>
    ELSE IF Len(data) = 1 THEN SubSeq(Append3bytes(data[1], 0, 0), 1, 2)
    ELSE IF Len(data) = 2 THEN SubSeq(Append3bytes(data[1], data[2], 0), 1, 3)
    ELSE Append3bytes(data[1], data[2], data[3])
             \o Encode64_short(SubSeq(data, 4, Len(data)))

Encode64(data) == Encode64From(data, 0)

\* ---------- the fallback: btoa(unescape(encodeURIComponent(text))) ----------
\* char codes of '%' and of the hexadecimal digit d (upper case)
PercentCode == 37
HexDigitCode(d) == IF d < 10 THEN 48 + d ELSE 55 + d
IsHexCode(c) == (c >= 48 /\ c <= 57) \/ (c >= 65 /\ c <= 70) \/ (c >= 97 /\ c <= 102)
HexValue(c) == IF c <= 57 THEN c - 48 ELSE IF c <= 70 THEN c - 55 ELSE c - 87

\* the characters encodeURIComponent leaves as they are: A-Z a-z 0-9 - _ . ! ~ * ' ( )
UriUnreserved(c) ==
    \/ (c >= 65 /\ c <= 90) \/ (c >= 97 /\ c <= 122) \/ (c >= 48 /\ c <= 57)
    \/ c \in {45, 95, 46, 33, 126, 42, 39, 40, 41}

\* encodeURIComponent(text): [throws, value]; URIError on a lone surrogate
EncodeURIComponent(text) ==
    LET cps == CodePoints(text)
        Esc(cp) == IF UriUnreserved(cp) THEN <<cp>>
                   ELSE LET bs == Utf8Of(cp)
                        IN  Concat([i \in DOMAIN bs |->
                                <<PercentCode, HexDigitCode(bs[i] \div 16),
                                  HexDigitCode(bs[i] % 16)>>])
    IN  IF \E i \in DOMAIN cps : cps[i] = -1
        THEN [throws |-> TRUE, value |-> <<>>]
        ELSE [throws |-> FALSE, value |-> Concat([i \in DOMAIN cps |-> Esc(cps[i])])]

\* unescape(s): %XX becomes the character with code XX
RECURSIVE Unescape(_)
Unescape(s) ==
    IF s = <<>> THEN <<>>
    ELSE IF s[1] = PercentCode /\ Len(s) >= 3 /\ IsHexCode(s[2]) /\ IsHexCode(s[3])
         THEN <<16 * HexValue(s[2]) + HexValue(s[3])>> \o Unescape(SubSeq(s, 4, Len(s)))
    ELSE <<s[1]>> \o Unescape(Tail(s))

\* the alphabet of btoa (RFC 4648)
Base64Chars ==
    <<"A", "B", "C", "D", "E", "F", "G", "H", "I", "J", "K", "L", "M",
      "N", "O", "P", "Q", "R", "S", "T", "U", "V", "W", "X", "Y", "Z",
      "a", "b", "c", "d", "e", "f", "g", "h", "i", "j", "k", "l", "m",
      "n", "o", "p", "q", "r", "s", "t", "u", "v", "w", "x", "y", "z",
      "0", "1", "2", "3", "4", "5", "6", "7", "8", "9", "+", "/">>

\* btoa(s) on a binary string (every code <= 255): base64 with '=' padding
RECURSIVE Btoa(_)
Btoa(s) ==
    IF s = <<>> THEN <<>>
    ELSE LET n == Min(3, Len(s))
             v == s[1] * 65536 + (IF n >= 2 THEN s[2] * 256 ELSE 0)
                      + (IF n >= 3 THEN s[3] ELSE 0)
             c(k) == Base64Chars[((v \div Pow2(6 * (3 - k))) % 64) + 1]
         IN  <<c(0), c(1), IF n >= 2 THEN c(2) ELSE "=", IF n >= 3 THEN c(3) ELSE "=">>
                 \o Btoa(SubSeq(s, n + 1, Len(s)))

\* ---------- encodePlantUML ----------
\* String.fromCharCode(...compressed): one character per byte, its code the byte
StringFromCharCode(bytes) == bytes

NoOutcome == [kind |-> "none", path |-> "none", value |-> <<>>]

\* The binary string the try block hands to encode64.
EncodeInput(text) == StringFromCharCode(PakoDeflate(TextEncoderEncode(text)))

\* mutant: a call made after an earlier call answers from what the earlier
\* call left behind instead of from its argument
EncodePlantUML_stateful(text, tryThrows) ==
    IF encOut.kind # "none"
    THEN [kind |-> "return", path |-> "deflate", value |-> encOut.value \o <<"0", "0", "0", "0">>]
    ELSE IF ~tryThrows
         THEN [kind |-> "return", path |-> "deflate", value |-> Encode64(EncodeInput(text))]
         ELSE [kind |-> "return", path |-> "fallback", value |-> <<>>]

\* encodePlantUML(text).  tryThrows: the try block ends in an exception
\* (pako.deflate throws on an internal error; the spread of the compressed
\* bytes into String.fromCharCode throws a RangeError past the engine's
\* argument limit); the catch block then runs.
EncodePlantUML(text, tryThrows) ==
    IF ~tryThrows
    THEN [kind |-> "return", path |-> "deflate", value |-> Encode64(EncodeInput(text))]
    ELSE LET uri == EncodeURIComponent(text)
         IN  IF uri.throws
             THEN [kind |-> "throw", path |-> "fallback", value |-> <<>>]
             ELSE [kind |-> "return", path |-> "fallback",
                   value |-> Btoa(Unescape(uri.value))]

\* ---------- AI configuration (AIConfigModal.vue, DesignStudio.vue) ----------
\* A configuration object is a function from field names to the JSON text of
\* the value; a field the object lacks is outside its domain.
Fields == {"provider", "apiKey", "apiUrl", "model", "temperature", "maxTokens",
           "timeout", "templateUrl", "enableRemoteTemplate", "enableStreaming",
           "enableAutoSuggest"}

\* defaultConfig of AIConfigModal.vue
defaultConfig ==
    [provider |-> "demo", apiKey |-> "", apiUrl |-> "", model |-> "gpt-4",
     temperature |-> "0.7", maxTokens |-> "2000", timeout |-> "30",
     templateUrl |-> "https://api.example.com/templates",
     enableRemoteTemplate |-> "false", enableStreaming |-> "true",
     enableAutoSuggest |-> "false"]

\* the initial value of aiConfig in DesignStudio.vue
initialAiConfig ==
    [provider |-> "demo", apiKey |-> "", apiUrl |-> "", model |-> "gpt-4",
     temperature |-> "0.7", maxTokens |-> "2000", timeout |-> "30",
     templateUrl |-> "https://api.example.com/templates",
     enableRemoteTemplate |-> "false", enableStreaming |-> "true",
     enableAutoSuggest |-> "false"]

\* presets of AIConfigModal.vue
presets ==
    [openai |-> [apiUrl |-> "https://api.openai.com/v1/chat/completions", model |-> "gpt-4"],
     azure |-> [apiUrl |-> "https://{your-resource}.openai.azure.com/openai/deployments/{deployment}/chat/completions?api-version=2023-12-01-preview",
               model |-> "gpt-4"],
     custom |-> [apiUrl |-> "http://localhost:11434/v1/chat/completions", model |-> "llama2"],
     demo |-> [apiUrl |-> "", model |-> "demo"]]

\* obj.f in JavaScript: the value, or undefined when the object lacks the field
Get(obj, f) == IF f \in DOMAIN obj THEN obj[f] ELSE "undefined"

\* JavaScript truthiness of a value given by its JSON text
Truthy(v) == v \notin {"undefined", "null", "false", "0", ""}

\* { ...a, ...b }: the fields of both, b's value where both have the field
SpreadMerge(a, b) ==
    [f \in (DOMAIN a) \cup (DOMAIN b) |-> IF f \in DOMAIN b THEN b[f] ELSE a[f]]

\* loadConfig: the object built from a parsed stored object
LoadedConfig(parsed) == SpreadMerge(defaultConfig, parsed)

\* the item of localStorage: absent, a text JSON.parse rejects, or the JSON
\* text of an object
EmptyObject == [f \in {} |-> ""]
NoItem == [kind |-> "null", obj |-> EmptyObject]
CorruptItem == [kind |-> "corrupt", obj |-> EmptyObject]
ObjectItem(o) == [kind |-> "object", obj |-> o]

\* JSON.stringify(obj): fields whose value is undefined are left out
JsonStringify(o) == ObjectItem([f \in {g \in DOMAIN o : o[g] # "undefined"} |-> o[f]])

\* JSON.parse(item): [throws, value]
JsonParse(item) ==
    IF item.kind = "object" THEN [throws |-> FALSE, value |-> item.obj]
    ELSE [throws |-> TRUE, value |-> EmptyObject]

\* a stored object with every field set, its provider p, the other fields at
\* values the user chose (none at its default)
FullStored(p) ==
    [provider |-> p, apiKey |-> "sk-1", apiUrl |-> "http://my-endpoint", model |-> "my-model",
     temperature |-> "1.2", maxTokens |-> "4000", timeout |-> "60",
     templateUrl |-> "https://my/templates",
     enableRemoteTemplate |-> "true", enableStreaming |-> "false",
     enableAutoSuggest |-> "true"]

Restrict(o, D) == [f \in D |-> o[f]]

Providers == {"demo", "openai", "azure", "custom"}

\* the stored objects of the model: any subset of the fields may be missing
StoredObjects == { Restrict(FullStored(p), D) : p \in Providers, D \in SUBSET Fields }

\* AIConfigModal before it is mounted
CfgIdle ==
    /\ localStorage = NoItem
    /\ modalMounted = FALSE
    /\ config = defaultConfig
    /\ watchPending = FALSE
    /\ lastCfgOp = "none"

\* AIConfigModal onMounted: loadConfig().  Assigning config.value queues the
\* watcher of config.provider when the provider changed.
ModalOnMounted ==
    /\ ~modalMounted
    /\ modalMounted' = TRUE
    /\ lastCfgOp' = "load"
    /\ LET parsed == JsonParse(localStorage)
       IN  IF localStorage.kind # "null" /\ ~parsed.throws
           THEN /\ config' = LoadedConfig(parsed.value)
                /\ watchPending' = (Get(config', "provider") # Get(config, "provider"))
           ELSE UNCHANGED <<config, watchPending>>
    /\ UNCHANGED localStorage
    /\ UNCHANGED <<encVars, e64Vars, studioVars, moreVars>>

\* watch(() => config.value.provider): a known provider's preset overwrites
\* apiUrl and model
ModalFlushWatcher ==
    /\ watchPending
    /\ watchPending' = FALSE
    /\ LET newProvider == Get(config, "provider")
       IN  IF newProvider \in DOMAIN presets
           THEN config' = SpreadMerge(config, presets[newProvider])
           ELSE UNCHANGED config
    /\ UNCHANGED <<localStorage, modalMounted, lastCfgOp>>
    /\ UNCHANGED <<encVars, e64Vars, studioVars, moreVars>>

\* template: a provider button, @click="config.provider = provider.key".  The
\* watcher queued by an earlier handler has run before the next click is handled.
SelectProvider(p) ==
    /\ modalMounted
    /\ ~watchPending
    /\ config' = SpreadMerge(config, [provider |-> p])
    /\ watchPending' = (p # Get(config, "provider"))
    /\ lastCfgOp' = "select"
    /\ UNCHANGED <<localStorage, modalMounted>>
    /\ UNCHANGED <<encVars, e64Vars, studioVars, moreVars>>

\* resetConfig, the confirm() answered yes: config.value = { ...defaultConfig }
ResetConfig ==
    /\ modalMounted
    /\ ~watchPending
    /\ config' = SpreadMerge(defaultConfig, EmptyObject)
    /\ watchPending' = (Get(defaultConfig, "provider") # Get(config, "provider"))
    /\ lastCfgOp' = "reset"
    /\ UNCHANGED <<localStorage, modalMounted>>
    /\ UNCHANGED <<encVars, e64Vars, studioVars, moreVars>>

\* ---------- DesignStudio.vue: documents and descriptions ----------
\* bounds: host commands issued in one run; user edits of the document
MaxRequests == 3
MaxEdits == 1
\* bound: items of the document beyond which no diagram is generated locally
MaxDocLen == 2

\* A text is a sequence of words; " " is white space, the other words are
\* ordinary words or keywords.  Keywords of generateDemoPlantUML, transliterated:
LoginWords == {"denglu", "renzheng", "jianquan"}
OrderWords == {"dingdan", "xiadan", "goumai"}
ClassWords == {"lei", "class", "duixiang"}

\* the texts the user types or selects
Descs == {<<" ">>, <<"x", "Class", "denglu">>}
\* what the user selects in the editor
Selections == {<<"x", "Class", "denglu">>}

\* text.trim() is empty
IsBlank(text) == \A i \in DOMAIN text : text[i] = " "

\* word.toLowerCase()
ToLowerCase(w) == IF w \in {"Class", "CLASS"} THEN "class" ELSE w

\* desc_lower.includes(k) for some k of ks
IncludesAny(text, ks) == \E i \in DOMAIN text : ToLowerCase(text[i]) \in ks

\* A document is a sequence of items; an item is a piece of text or a diagram
\* block (the heading and the fenced plantuml code that follows it).
TextItem(src) == [kind |-> "text", src |-> src, body |-> <<>>]
ChartItem(src, text) == [kind |-> "chart", src |-> src, body |-> text]

\* the initial value of docContent
InitialDoc == <<TextItem("initial")>>

\* generateDemoPlantUML(text): the canned diagram chosen by keyword, titled text
GenerateDemoPlantUML(text) ==
    IF IncludesAny(text, LoginWords) THEN ChartItem("demo-login", text)
    ELSE IF IncludesAny(text, OrderWords) THEN ChartItem("demo-order", text)
    ELSE IF IncludesAny(text, ClassWords) THEN ChartItem("demo-class", text)
    ELSE ChartItem("demo-flow", text)

\* what the host returns for a description when the command succeeds
HostDiagram(text) == ChartItem("host", text)

\* the documents of the host, as list_documents returns them, and their content
HostFiles == <<"a">>
\* a host that holds several documents
ManyHostFiles == <<"a", "b", "c">>
HostContent(file) == <<TextItem(file)>>

\* mutant: the new content is the diagram alone, the current content is dropped
InsertedContent_replace(currentContent, plantumlCode) == <<plantumlCode>>

\* mutant: the diagram is appended to the document as it was first opened
InsertedContent_stale(currentContent, plantumlCode) == Append(InitialDoc, plantumlCode)

\* insertPlantUMLToEditor: currentContent + heading + plantumlCode
InsertedContent(currentContent, plantumlCode) == Append(currentContent, plantumlCode)

\* template: the two generate buttons are disabled while isGenerating
\* mutant: the selection button is never disabled
GenerateSelectionDisabled_never == FALSE

GenerateSelectionDisabled == isGenerating

GenerateInputDisabled == isGenerating

\* getSelectedText()
GetSelectedText == IF ~editor THEN <<>> ELSE selection

\* invoke(cmd, arg): the command is outstanding until the host answers;
\* pending lists the outstanding commands in the order they were issued
Invoke(cmd, arg) ==
    /\ nextId < MaxRequests
    /\ nextId' = nextId + 1
    /\ pending' = Append(pending, [cmd |-> cmd, arg |-> arg])

\* s without its i-th element
RemoveAt(s, i) == SubSeq(s, 1, i - 1) \o SubSeq(s, i + 1, Len(s))

\* the host answers the i-th outstanding command, a command cmd
Answered(i, cmd, ok) ==
    /\ i \in DOMAIN pending
    /\ pending[i].cmd = cmd
    /\ pending' = RemoveAt(pending, i)
    /\ lastReply' = IF ok THEN "resolved" ELSE "rejected"
    /\ UNCHANGED nextId

NoReply == "none"

\* DesignStudio before it is mounted
StudioIdle ==
    /\ mounted = FALSE
    /\ editor = FALSE
    /\ editorContent = <<>>
    /\ docContent = InitialDoc
    /\ currentFile = "untitled"
    /\ savedFiles = <<>>
    /\ isGenerating = FALSE
    /\ aiInput = <<>>
    /\ showAiPanel = FALSE
    /\ selectedText = <<>>
    /\ selection = <<>>
    /\ toastMessage = ""
    /\ aiConfig = initialAiConfig
    /\ pending = <<>>
    /\ nextId = 0
    /\ edits = 0
    /\ lastReply = NoReply
    /\ generated = 0

\* onMounted: loadSavedFiles() issues list_documents, nextTick(initEditor)
\* creates the editor with docContent, the stored AI configuration is read
StudioOnMounted ==
    /\ ~mounted
    /\ mounted' = TRUE
    /\ Invoke("list_documents", <<>>)
    /\ editor' = TRUE
    /\ editorContent' = docContent
    /\ LET parsed == JsonParse(localStorage)
       IN  IF localStorage.kind # "null" /\ ~parsed.throws
           THEN aiConfig' = parsed.value
           ELSE UNCHANGED aiConfig
    /\ UNCHANGED <<docContent, currentFile, savedFiles, isGenerating, aiInput, showAiPanel,
                   selectedText, selection, toastMessage, edits, lastReply>>
    /\ UNCHANGED generated
    /\ UNCHANGED <<encVars, e64Vars, cfgVars, moreVars>>

\* loadSavedFiles after the await: list_documents succeeded
ListDocumentsResolve(i, files) ==
    /\ Answered(i, "list_documents", TRUE)
    /\ pending[i].arg = <<>>
    /\ savedFiles' = files
    /\ UNCHANGED <<mounted, editor, editorContent, docContent, currentFile, isGenerating,
                   aiInput, showAiPanel, selectedText, selection, toastMessage, aiConfig,
                   edits>>
    /\ UNCHANGED generated
    /\ UNCHANGED <<encVars, e64Vars, cfgVars, moreVars>>

\* loadSavedFiles after the await: list_documents failed (logged only)
ListDocumentsReject(i) ==
    /\ Answered(i, "list_documents", FALSE)
    /\ pending[i].arg = <<>>
    /\ UNCHANGED <<mounted, editor, editorContent, docContent, currentFile, savedFiles,
                   isGenerating, aiInput, showAiPanel, selectedText, selection,
                   toastMessage, aiConfig, edits>>
    /\ UNCHANGED generated
    /\ UNCHANGED <<encVars, e64Vars, cfgVars, moreVars>>

\* loadDocument(filename) up to the await; the file buttons are never disabled
LoadDocument(filename) ==
    /\ mounted
    /\ \E i \in DOMAIN savedFiles : savedFiles[i] = filename
    /\ Invoke("load_document", <<filename>>)
    /\ lastRequested' = filename
    /\ UNCHANGED <<mounted, editor, editorContent, docContent, currentFile, savedFiles,
                   isGenerating, aiInput, showAiPanel, selectedText, selection,
                   toastMessage, aiConfig, edits, lastReply>>
    /\ UNCHANGED generated
    /\ UNCHANGED <<encVars, e64Vars, cfgVars, chartVars, tplVars, appVars, hubVars, uplVars,
                   acVars, libVars>>

\* loadDocument after the await: load_document succeeded; nextTick sets the
\* editor's markdown
LoadDocumentResolve(i) ==
    /\ Answered(i, "load_document", TRUE)
    /\ currentFile' = pending[i].arg[1]
    /\ docContent' = HostContent(pending[i].arg[1])
    /\ editorContent' = IF editor THEN HostContent(pending[i].arg[1]) ELSE editorContent
    /\ toastMessage' = "loaded"
    /\ UNCHANGED <<mounted, editor, savedFiles, isGenerating, aiInput, showAiPanel,
                   selectedText, selection, aiConfig, edits>>
    /\ UNCHANGED generated
    /\ UNCHANGED <<encVars, e64Vars, cfgVars, moreVars>>

\* loadDocument after the await: load_document failed
LoadDocumentReject(i) ==
    /\ Answered(i, "load_document", FALSE)
    /\ toastMessage' = "load failed"
    /\ UNCHANGED <<mounted, editor, editorContent, docContent, currentFile, savedFiles,
                   isGenerating, aiInput, showAiPanel, selectedText, selection, aiConfig,
                   edits>>
    /\ UNCHANGED generated
    /\ UNCHANGED <<encVars, e64Vars, cfgVars, moreVars>>

\* insertPlantUMLToEditor(plantumlCode): nothing without an editor; the new
\* content goes to docContent and to the editor
InsertPlantUMLToEditor(plantumlCode) ==
    IF ~editor
    THEN UNCHANGED <<docContent, editorContent>>
    ELSE /\ docContent' = InsertedContent(editorContent, plantumlCode)
         /\ editorContent' = InsertedContent(editorContent, plantumlCode)

\* generatePlantUMLFromInput up to the await (click on the panel's button,
\* rendered while showAiPanel, disabled while isGenerating)
GeneratePlantUMLFromInput ==
    /\ mounted
    /\ showAiPanel
    /\ ~GenerateInputDisabled
    /\ IF IsBlank(aiInput)
       THEN /\ toastMessage' = "enter a description"
            /\ UNCHANGED <<isGenerating, pending, nextId>>
       ELSE /\ isGenerating' = TRUE
            /\ Invoke("generate_plantuml", aiInput)
            /\ UNCHANGED toastMessage
    /\ UNCHANGED <<mounted, editor, editorContent, docContent, currentFile, savedFiles,
                   aiInput, showAiPanel, selectedText, selection, aiConfig, edits,
                   lastReply>>
    /\ UNCHANGED generated
    /\ UNCHANGED <<encVars, e64Vars, cfgVars, moreVars>>

\* generatePlantUMLFromInput after the await: generate_plantuml succeeded
GenerateFromInputResolve(i) ==
    /\ Answered(i, "generate_plantuml", TRUE)
    /\ InsertPlantUMLToEditor(HostDiagram(pending[i].arg))
    /\ aiInput' = <<>>
    /\ showAiPanel' = FALSE
    /\ toastMessage' = "diagram generated"
    /\ isGenerating' = FALSE
    /\ UNCHANGED <<mounted, editor, currentFile, savedFiles, selectedText, selection,
                   aiConfig, edits>>
    /\ generated' = generated + 1
    /\ UNCHANGED <<encVars, e64Vars, cfgVars, moreVars>>

\* generatePlantUMLFromInput, catch block: generate_plantuml failed; the demo
\* diagram is made from aiInput as it is now
GenerateFromInputReject(i) ==
    /\ Answered(i, "generate_plantuml", FALSE)
    /\ InsertPlantUMLToEditor(GenerateDemoPlantUML(aiInput))
    /\ aiInput' = <<>>
    /\ showAiPanel' = FALSE
    /\ toastMessage' = "demo diagram generated"
    /\ isGenerating' = FALSE
    /\ UNCHANGED <<mounted, editor, currentFile, savedFiles, selectedText, selection,
                   aiConfig, edits>>
    /\ generated' = generated + 1
    /\ UNCHANGED <<encVars, e64Vars, cfgVars, moreVars>>

\* generatePlantUMLFromSelection up to the await, or to its end in demo mode
\* (click on the toolbar button, disabled while isGenerating)
GeneratePlantUMLFromSelection ==
    /\ mounted
    /\ ~GenerateSelectionDisabled
    /\ LET text == GetSelectedText
       IN  IF IsBlank(text)
           THEN /\ toastMessage' = "select a description first"
                /\ UNCHANGED <<selectedText, isGenerating, pending, nextId, docContent,
                               editorContent, generated>>
           ELSE /\ selectedText' = text
                /\ IF Get(aiConfig, "provider") # "demo" /\ Truthy(Get(aiConfig, "apiKey"))
                   THEN /\ isGenerating' = TRUE
                        /\ Invoke("generate_plantuml_from_text", text)
                        /\ UNCHANGED <<toastMessage, docContent, editorContent, generated>>
                   ELSE /\ Len(editorContent) < MaxDocLen
                        /\ InsertPlantUMLToEditor(GenerateDemoPlantUML(text))
                        /\ toastMessage' = "demo diagram generated"
                        /\ isGenerating' = FALSE
                        /\ generated' = generated + 1
                        /\ UNCHANGED <<pending, nextId>>
    /\ UNCHANGED <<mounted, editor, currentFile, savedFiles, aiInput, showAiPanel,
                   selection, aiConfig, edits, lastReply>>
    /\ UNCHANGED <<encVars, e64Vars, cfgVars, moreVars>>

\* generatePlantUMLFromSelection after the await: the command succeeded
GenerateFromSelectionResolve(i) ==
    /\ Answered(i, "generate_plantuml_from_text", TRUE)
    /\ InsertPlantUMLToEditor(HostDiagram(pending[i].arg))
    /\ toastMessage' = "diagram generated"
    /\ isGenerating' = FALSE
    /\ UNCHANGED <<mounted, editor, currentFile, savedFiles, aiInput, showAiPanel,
                   selectedText, selection, aiConfig, edits>>
    /\ generated' = generated + 1
    /\ UNCHANGED <<encVars, e64Vars, cfgVars, moreVars>>

\* generatePlantUMLFromSelection, catch block: the command failed; the demo
\* diagram is made from the text captured at the click
GenerateFromSelectionReject(i) ==
    /\ Answered(i, "generate_plantuml_from_text", FALSE)
    /\ InsertPlantUMLToEditor(GenerateDemoPlantUML(pending[i].arg))
    /\ toastMessage' = "demo diagram generated"
    /\ isGenerating' = FALSE
    /\ UNCHANGED <<mounted, editor, currentFile, savedFiles, aiInput, showAiPanel,
                   selectedText, selection, aiConfig, edits>>
    /\ generated' = generated + 1
    /\ UNCHANGED <<encVars, e64Vars, cfgVars, moreVars>>

\* the user opens or closes the AI panel
ToggleAiPanel ==
    /\ mounted
    /\ showAiPanel' = ~showAiPanel
    /\ UNCHANGED <<mounted, editor, editorContent, docContent, currentFile, savedFiles,
                   isGenerating, aiInput, selectedText, selection, toastMessage, aiConfig,
                   pending, nextId, edits, lastReply>>
    /\ UNCHANGED generated
    /\ UNCHANGED <<encVars, e64Vars, cfgVars, moreVars>>

\* the user types into the panel's textarea (v-model aiInput)
TypeAiInput(text) ==
    /\ mounted
    /\ showAiPanel
    /\ aiInput # text
    /\ aiInput' = text
    /\ UNCHANGED <<mounted, editor, editorContent, docContent, currentFile, savedFiles,
                   isGenerating, showAiPanel, selectedText, selection, toastMessage,
                   aiConfig, pending, nextId, edits, lastReply>>
    /\ UNCHANGED generated
    /\ UNCHANGED <<encVars, e64Vars, cfgVars, moreVars>>

\* the user selects text in the editor
SelectText(text) ==
    /\ mounted
    /\ editor
    /\ selection # text
    /\ selection' = text
    /\ UNCHANGED <<mounted, editor, editorContent, docContent, currentFile, savedFiles,
                   isGenerating, aiInput, showAiPanel, selectedText, toastMessage,
                   aiConfig, pending, nextId, edits, lastReply>>
    /\ UNCHANGED generated
    /\ UNCHANGED <<encVars, e64Vars, cfgVars, moreVars>>

\* the text the user types, told apart by whether a generation was running
TypedItem == TextItem(IF isGenerating THEN "typed while generating" ELSE "typed")

\* the user types in the editor; the change event copies the markdown to docContent
EditDocument ==
    /\ mounted
    /\ editor
    /\ edits < MaxEdits
    /\ edits' = edits + 1
    /\ editorContent' = Append(editorContent, TypedItem)
    /\ docContent' = Append(editorContent, TypedItem)
    /\ UNCHANGED <<mounted, editor, currentFile, savedFiles, isGenerating, aiInput,
                   showAiPanel, selectedText, selection, toastMessage, aiConfig, pending,
                   nextId, lastReply>>
    /\ UNCHANGED generated
    /\ UNCHANGED <<encVars, e64Vars, cfgVars, moreVars>>

\* ---------- DesignStudio.vue: saving the document ----------
\* file names of the model; trim() leaves "" of the first two
TrimName(name) == IF name = " " THEN "" ELSE name

\* what prompt() returns: null when cancelled, else the text of the field
PromptAnswers == {[cancelled |-> TRUE, text |-> ""], [cancelled |-> FALSE, text |-> ""],
                  [cancelled |-> FALSE, text |-> " "], [cancelled |-> FALSE, text |-> "document"]}

\* template: the save button is disabled while isSaving
SaveDisabled == isSaving

\* the refs of DesignStudio that saving never touches
SaveFrame ==
    /\ UNCHANGED <<mounted, editor, editorContent, docContent, isGenerating, aiInput,
                   showAiPanel, selectedText, selection, aiConfig, edits, generated>>
    /\ UNCHANGED <<encVars, e64Vars, cfgVars, chartVars, tplVars, view, hubVars, uplVars, lateVars>>

\* the user types a file name into the title field (v-model currentFile)
TypeCurrentFile(name) ==
    /\ mounted
    /\ currentFile # name
    /\ currentFile' = name
    /\ UNCHANGED <<savedFiles, toastMessage, pending, nextId, lastReply, isSaving>>
    /\ SaveFrame

\* handleSave up to its first await.  The command list_documents that follows
\* save_document is counted when the save starts.
HandleSave(answer) ==
    /\ mounted
    /\ ~SaveDisabled
    /\ LET prompted == TrimName(currentFile) = ""
       IN  IF prompted /\ (answer.cancelled \/ answer.text = "")
           THEN UNCHANGED <<currentFile, isSaving, pending, nextId>>
           ELSE /\ currentFile' = IF prompted THEN answer.text ELSE currentFile
                /\ isSaving' = TRUE
                /\ nextId + 2 <= MaxRequests
                /\ nextId' = nextId + 2
                /\ pending' = Append(pending, [cmd |-> "save_document", arg |-> currentFile'])
    /\ UNCHANGED <<savedFiles, toastMessage, lastReply>>
    /\ SaveFrame

\* handleSave after save_document succeeded: loadSavedFiles() issues list_documents
SaveDocumentResolve(i) ==
    /\ i \in DOMAIN pending
    /\ pending[i].cmd = "save_document"
    /\ pending' = Append(RemoveAt(pending, i), [cmd |-> "list_documents", arg |-> <<"handleSave">>])
    /\ lastReply' = "resolved"
    /\ UNCHANGED <<currentFile, savedFiles, toastMessage, nextId, isSaving>>
    /\ SaveFrame

\* handleSave, catch and finally: save_document failed
SaveDocumentReject(i) ==
    /\ Answered(i, "save_document", FALSE)
    /\ toastMessage' = "save failed"
    /\ isSaving' = FALSE
    /\ UNCHANGED <<currentFile, savedFiles>>
    /\ SaveFrame

\* handleSave after the awaited loadSavedFiles() ended, whose own catch keeps
\* a failure of list_documents from reaching handleSave
SaveListAnswers(i, ok) ==
    /\ Answered(i, "list_documents", ok)
    /\ pending[i].arg = <<"handleSave">>
    /\ savedFiles' = IF ok THEN HostFiles ELSE savedFiles
    /\ toastMessage' = "saved"
    /\ isSaving' = FALSE
    /\ UNCHANGED currentFile
    /\ SaveFrame

\* ---------- CodeHubAssistant.vue ----------
\* values of the MR address field; trim() leaves "" of the first two
MrUrls == {"", " ", "https://codehub.example.com/mr/1"}

\* lists of review comments the host answers with
CommentLists == {<<>>, <<"comment-1">>}

\* the RAG pairs the host makes of the comments
HostPairsOf(comments) == [i \in DOMAIN comments |-> <<"pair", comments[i]>>]

HubIdle ==
    /\ hubMounted = FALSE
    /\ mrUrl = ""
    /\ isWebviewOpen = FALSE
    /\ isCapturing = FALSE
    /\ isProcessingRAG = FALSE
    /\ reviewComments = <<>>
    /\ ragPairs = <<>>
    /\ activeTab = "comments"
    /\ hubAlert = ""

\* what no handler of CodeHubAssistant touches: the other components, and of
\* the editor view all but the host commands in flight
HubFrame ==
    /\ UNCHANGED <<mounted, editor, editorContent, docContent, currentFile, savedFiles,
                   isGenerating, aiInput, showAiPanel, selectedText, selection,
                   toastMessage, aiConfig, edits, generated>>
    /\ UNCHANGED <<encVars, e64Vars, cfgVars, chartVars, tplVars, appVars, uplVars, lateVars>>

\* template: the buttons of the three handlers
OpenWindowDisabled == isWebviewOpen
CaptureDisabled == ~isWebviewOpen \/ isCapturing
ProcessRAGDisabled == Len(reviewComments) = 0 \/ isProcessingRAG

\* onMounted: get_review_comments is issued
HubOnMounted ==
    /\ ~hubMounted
    /\ hubMounted' = TRUE
    /\ Invoke("get_review_comments", <<>>)
    /\ UNCHANGED <<mrUrl, isWebviewOpen, isCapturing, isProcessingRAG, reviewComments,
                   ragPairs, activeTab, hubAlert, lastReply>>
    /\ HubFrame

\* onMounted after the await: a failure is ignored
GetReviewCommentsAnswers(i, ok, comments) ==
    /\ Answered(i, "get_review_comments", ok)
    /\ reviewComments' = IF ok THEN comments ELSE reviewComments
    /\ UNCHANGED <<hubMounted, mrUrl, isWebviewOpen, isCapturing, isProcessingRAG,
                   ragPairs, activeTab, hubAlert>>
    /\ HubFrame

\* the user types into the MR address field (v-model mrUrl)
TypeMrUrl(u) ==
    /\ hubMounted
    /\ mrUrl # u
    /\ mrUrl' = u
    /\ UNCHANGED <<hubMounted, isWebviewOpen, isCapturing, isProcessingRAG, reviewComments,
                   ragPairs, activeTab, hubAlert, pending, nextId, lastReply>>
    /\ HubFrame

\* mutant: only the empty address is refused, a blank one is sent to the host
MrUrlMissing_empty(u) == u = ""

\* openCodeHubWindow: !mrUrl.value.trim()
MrUrlMissing(u) == TrimName(u) = ""

\* openCodeHubWindow up to its await
OpenCodeHubWindow ==
    /\ hubMounted
    /\ ~OpenWindowDisabled
    /\ IF MrUrlMissing(mrUrl)
       THEN /\ hubAlert' = "enter the MR link"
            /\ UNCHANGED <<pending, nextId>>
       ELSE /\ Invoke("open_codehub_window", mrUrl)
            /\ UNCHANGED hubAlert
    /\ UNCHANGED <<hubMounted, mrUrl, isWebviewOpen, isCapturing, isProcessingRAG,
                   reviewComments, ragPairs, activeTab, lastReply>>
    /\ HubFrame

\* openCodeHubWindow after the await
OpenWindowAnswers(i, ok) ==
    /\ Answered(i, "open_codehub_window", ok)
    /\ IF ok
       THEN /\ isWebviewOpen' = TRUE
            /\ UNCHANGED hubAlert
       ELSE /\ hubAlert' = "opening the window failed"
            /\ UNCHANGED isWebviewOpen
    /\ UNCHANGED <<hubMounted, mrUrl, isCapturing, isProcessingRAG, reviewComments,
                   ragPairs, activeTab>>
    /\ HubFrame

\* closeCodeHubWindow up to its await
CloseCodeHubWindow ==
    /\ hubMounted
    /\ isWebviewOpen
    /\ Invoke("close_codehub_window", <<>>)
    /\ UNCHANGED <<hubMounted, mrUrl, isWebviewOpen, isCapturing, isProcessingRAG,
                   reviewComments, ragPairs, activeTab, hubAlert, lastReply>>
    /\ HubFrame

\* closeCodeHubWindow after the await: a failure is logged only
CloseWindowAnswers(i, ok) ==
    /\ Answered(i, "close_codehub_window", ok)
    /\ isWebviewOpen' = IF ok THEN FALSE ELSE isWebviewOpen
    /\ UNCHANGED <<hubMounted, mrUrl, isCapturing, isProcessingRAG, reviewComments,
                   ragPairs, activeTab, hubAlert>>
    /\ HubFrame

\* mutant: the finally block of captureComments is missing
CapturingAfterAnswer_stuck(ok) == IF ok THEN FALSE ELSE isCapturing

\* captureComments, finally: isCapturing.value = false on both paths
CapturingAfterAnswer(ok) == FALSE

\* addManualComment, the prompt() answered with a text: the comment is built and
\* add_review_comment is invoked; a cancelled or empty prompt returns at once
AddManualComment(content) ==
    /\ hubMounted
    /\ IF content = ""
       THEN UNCHANGED <<pending, nextId>>
       ELSE Invoke("add_review_comment", content)
    /\ UNCHANGED <<hubMounted, mrUrl, isWebviewOpen, isCapturing, isProcessingRAG,
                   reviewComments, ragPairs, activeTab, hubAlert, lastReply>>
    /\ HubFrame

\* add_review_comment answers: .then pushes the comment, .catch only logs
AddCommentAnswers(i, ok) ==
    /\ Answered(i, "add_review_comment", ok)
    /\ reviewComments' = IF ok THEN Append(reviewComments, pending[i].arg) ELSE reviewComments
    /\ UNCHANGED <<hubMounted, mrUrl, isWebviewOpen, isCapturing, isProcessingRAG,
                   ragPairs, activeTab, hubAlert>>
    /\ HubFrame

\* captureComments up to its await
CaptureComments ==
    /\ hubMounted
    /\ ~CaptureDisabled
    /\ IF ~isWebviewOpen
       THEN /\ hubAlert' = "open the window first"
            /\ UNCHANGED <<isCapturing, pending, nextId>>
       ELSE /\ isCapturing' = TRUE
            /\ Invoke("capture_review_comments", <<>>)
            /\ UNCHANGED hubAlert
    /\ UNCHANGED <<hubMounted, mrUrl, isWebviewOpen, isProcessingRAG, reviewComments,
                   ragPairs, activeTab, lastReply>>
    /\ HubFrame

\* captureComments after the await
CaptureAnswers(i, ok, comments) ==
    /\ Answered(i, "capture_review_comments", ok)
    /\ reviewComments' = IF ok THEN comments ELSE reviewComments
    /\ hubAlert' = IF ok THEN "comments captured" ELSE "capture failed"
    /\ isCapturing' = CapturingAfterAnswer(ok)
    /\ UNCHANGED <<hubMounted, mrUrl, isWebviewOpen, isProcessingRAG, ragPairs, activeTab>>
    /\ HubFrame

\* processRAG up to its await
ProcessRAG ==
    /\ hubMounted
    /\ ~ProcessRAGDisabled
    /\ IF Len(reviewComments) = 0
       THEN /\ hubAlert' = "no comments to process"
            /\ UNCHANGED <<isProcessingRAG, pending, nextId>>
       ELSE /\ isProcessingRAG' = TRUE
            /\ Invoke("process_rag_pairs", <<>>)
            /\ UNCHANGED hubAlert
    /\ UNCHANGED <<hubMounted, mrUrl, isWebviewOpen, isCapturing, reviewComments,
                   ragPairs, activeTab, lastReply>>
    /\ HubFrame

\* processRAG after the await
ProcessRAGAnswers(i, ok) ==
    /\ Answered(i, "process_rag_pairs", ok)
    /\ ragPairs' = IF ok THEN HostPairsOf(reviewComments) ELSE ragPairs
    /\ activeTab' = IF ok THEN "rag" ELSE activeTab
    /\ hubAlert' = IF ok THEN "pairs generated" ELSE "processing failed"
    /\ isProcessingRAG' = FALSE
    /\ UNCHANGED <<hubMounted, mrUrl, isWebviewOpen, isCapturing, reviewComments>>
    /\ HubFrame

\* ---------- TemplateUploadModal.vue ----------
\* values of the title field; trim() leaves "" of the first two
Titles == {"", " ", "T"}

\* props.content: the parent opens the modal only for a document that is not blank
UploadContent == "document"

\* isFormValid
IsFormValid == Len(TrimName(uplTitle)) > 0 /\ Len(TrimName(UploadContent)) > 0

\* template: the upload button
UploadDisabled == isUploading \/ ~IsFormValid

\* a stored template, and the templateData handleUpload builds: its name and
\* the number that stands for 'template_' + Date.now()
Template(name, id) == [name |-> name, id |-> id]

\* the item of localStorage: absent, a text that is no JSON, JSON that is no
\* array, or a serialized list of templates
NoTemplatesItem == [kind |-> "null", list |-> <<>>]
CorruptTemplatesItem == [kind |-> "corrupt", list |-> <<>>]
NotArrayTemplatesItem == [kind |-> "notarray", list |-> <<>>]
TemplatesItem(list) == [kind |-> "list", list |-> list]

StoredTemplateItems ==
    {NoTemplatesItem, CorruptTemplatesItem, NotArrayTemplatesItem, TemplatesItem(<<>>),
     TemplatesItem(<<Template("old-1", -1)>>),
     TemplatesItem(<<Template("old-1", -1), Template("old-2", -2)>>)}

NoResult == [kind |-> "null", success |-> FALSE]
SuccessResult == [kind |-> "result", success |-> TRUE]
FailureResult == [kind |-> "result", success |-> FALSE]

\* mutant: the new template is put behind the stored ones
SaveToLocalStorage_push(templateData) ==
    IF localTemplates.kind = "notarray"
    THEN [throws |-> TRUE, item |-> localTemplates]
    ELSE IF storageFull
         THEN [throws |-> TRUE, item |-> localTemplates]
         ELSE [throws |-> FALSE,
               item |-> TemplatesItem(Append(IF localTemplates.kind = "list"
                                             THEN localTemplates.list ELSE <<>>, templateData))]

\* saveToLocalStorage(templateData): whether it throws, and the item afterwards.
\* A stored text that is no JSON gives the empty list; JSON that is no array has
\* no unshift, so the call throws; setItem throws when the quota is exceeded.
SaveToLocalStorage(templateData) ==
    LET templates0 == IF localTemplates.kind = "list" THEN localTemplates.list ELSE <<>>
    IN  IF localTemplates.kind = "notarray"
        THEN [throws |-> TRUE, item |-> localTemplates]
        ELSE IF storageFull
             THEN [throws |-> TRUE, item |-> localTemplates]
             ELSE [throws |-> FALSE, item |-> TemplatesItem(<<templateData>> \o templates0)]

\* mutant: a failure of save_template reaches the outer catch block
StoredAfterAnswer_nofallback(ok, templateData) ==
    IF ok THEN [throws |-> FALSE, item |-> localTemplates]
    ELSE [throws |-> TRUE, item |-> localTemplates]

\* handleUpload, the inner try: save_template, and saveToLocalStorage when it failed
StoredAfterAnswer(ok, templateData) ==
    IF ok THEN [throws |-> FALSE, item |-> localTemplates]
    ELSE SaveToLocalStorage(templateData)

UplIdle ==
    /\ uplShow = FALSE
    /\ uplTitle = ""
    /\ isUploading = FALSE
    /\ uploadResult = NoResult
    /\ showSuccess = FALSE
    /\ uplTimers = 0
    /\ uplEmitted = FALSE
    /\ localTemplates = NoTemplatesItem
    /\ storageFull = FALSE

\* what no handler of the modal touches
UplFrame ==
    /\ UNCHANGED <<mounted, editor, editorContent, docContent, currentFile, savedFiles,
                   isGenerating, aiInput, showAiPanel, selectedText, selection,
                   toastMessage, aiConfig, edits, generated>>
    /\ UNCHANGED <<encVars, e64Vars, cfgVars, chartVars, tplVars, appVars, hubVars, lateVars>>

\* DesignStudio openTemplateUpload: the modal is shown
OpenTemplateUpload ==
    /\ ~uplShow
    /\ uplShow' = TRUE
    /\ UNCHANGED <<uplTitle, isUploading, uploadResult, showSuccess, uplTimers, uplEmitted,
                   localTemplates, storageFull, pending, nextId, lastReply>>
    /\ UplFrame

\* the user types into the title field (v-model title)
TypeTitle(t) ==
    /\ uplShow
    /\ uplTitle # t
    /\ uplTitle' = t
    /\ UNCHANGED <<uplShow, isUploading, uploadResult, showSuccess, uplTimers, uplEmitted,
                   localTemplates, storageFull, pending, nextId, lastReply>>
    /\ UplFrame

\* handleUpload up to its await
HandleUpload ==
    /\ uplShow
    /\ ~UploadDisabled
    /\ IF ~IsFormValid
       THEN /\ uploadResult' = FailureResult
            /\ UNCHANGED <<isUploading, pending, nextId>>
       ELSE /\ isUploading' = TRUE
            /\ uploadResult' = NoResult
            /\ Invoke("save_template", Template(TrimName(uplTitle), nextId))
    /\ UNCHANGED <<uplShow, uplTitle, showSuccess, uplTimers, uplEmitted, localTemplates,
                   storageFull, lastReply>>
    /\ UplFrame

\* handleUpload after the await: save_template answered
SaveTemplateAnswers(i, ok) ==
    /\ Answered(i, "save_template", ok)
    /\ LET stored == StoredAfterAnswer(ok, pending[i].arg)
       IN  IF ~stored.throws
           THEN /\ localTemplates' = stored.item
                /\ showSuccess' = TRUE
                /\ uploadResult' = SuccessResult
                /\ uplTimers' = uplTimers + 1
           ELSE /\ uploadResult' = FailureResult
                /\ UNCHANGED <<localTemplates, showSuccess, uplTimers>>
    /\ isUploading' = FALSE
    /\ UNCHANGED <<uplShow, uplTitle, uplEmitted, storageFull>>
    /\ UplFrame

\* closeModal: the form is reset and 'close' is emitted
CloseModalResets ==
    /\ uplTitle' = ""
    /\ uploadResult' = NoResult
    /\ showSuccess' = FALSE
    /\ uplShow' = FALSE

\* the timer handleUpload set fires: emit('uploaded'), closeModal()
UploadTimerFires ==
    /\ uplTimers > 0
    /\ uplTimers' = uplTimers - 1
    /\ uplEmitted' = TRUE
    /\ CloseModalResets
    /\ UNCHANGED <<isUploading, localTemplates, storageFull, pending, nextId, lastReply>>
    /\ UplFrame

\* the user closes the modal
CloseModal ==
    /\ uplShow
    /\ CloseModalResets
    /\ UNCHANGED <<isUploading, uplTimers, uplEmitted, localTemplates, storageFull, pending,
                   nextId, lastReply>>
    /\ UplFrame

\* ---------- the application: one component at a time ----------
\* App.vue shows one routed view at a time; the upload modal covers the editor
Views == {"studio", "codehub", "upload"}

AppIdle ==
    /\ view = "studio"
    /\ isSaving = FALSE

\* ---------- the metrics dashboard (part_001): chartData ----------
\* bound: longest metrics list
MaxMetrics == 8
\* the dates of the records, as the numbers new Date(date).getTime() orders them by
Dates == {1, 2, 3}
\* slice(-7): the number of records the chart keeps
ChartWindow == 7

\* a record of metrics: its date and its position in the list the host returned
MetricsOf(ds) == [i \in DOMAIN ds |-> [date |-> ds[i], id |-> i]]

\* the comparator (a, b) => new Date(a.date).getTime() - new Date(b.date).getTime()
CompareByDate(a, b) == a.date - b.date

\* Array.prototype.sort with the comparator: a stable sort, by insertion
RECURSIVE InsertSorted(_, _)
InsertSorted(sorted, x) ==
    IF sorted = <<>> THEN <<x>>
    ELSE IF CompareByDate(sorted[Len(sorted)], x) <= 0
         THEN Append(sorted, x)
         ELSE Append(InsertSorted(SubSeq(sorted, 1, Len(sorted) - 1), x), sorted[Len(sorted)])

RECURSIVE SortByDate(_)
SortByDate(arr) ==
    IF arr = <<>> THEN <<>>
    ELSE InsertSorted(SortByDate(SubSeq(arr, 1, Len(arr) - 1)), arr[Len(arr)])

\* arr.slice(-k)
SliceLast(arr, k) == SubSeq(arr, Len(arr) - Min(k, Len(arr)) + 1, Len(arr))

\* mutant: the last records of the list are taken without sorting it
ChartDataOf_unsorted(list) == SliceLast(list, ChartWindow)

\* the computed chartData: [...metrics.value].sort(...).slice(-7)
ChartDataOf(list) == SliceLast(SortByDate(list), ChartWindow)

\* metrics.value after chartData was computed: the sort works on a copy
MetricsAfterChartData(list) == list

ChartIdle ==
    /\ metrics = <<>>
    /\ chartData = <<"none">>

\* the dashboard holds any bounded list of records
ChartInit ==
    /\ \E n \in 0..MaxMetrics : \E ds \in [1..n -> Dates] : metrics = MetricsOf(ds)
    /\ chartData = <<"none">>

\* the template reads chartData: the computed is evaluated
ReadChartData ==
    /\ chartData = <<"none">>
    /\ chartData' = <<"value", ChartDataOf(metrics)>>
    /\ metrics' = MetricsAfterChartData(metrics)
    /\ UNCHANGED <<encVars, e64Vars, cfgVars, studioVars, tplVars, appVars, hubVars, uplVars, lateVars>>

\* ---------- the template library RemoteTemplates: loadTemplates ----------
\* bound: calls of loadTemplates in one run
MaxLoads == 2

Variants == {"demo", "fetch", "command"}

\* values of props.templateUrl: empty, blank, a demo address, a remote address
Urls == {"", " ", "https://demo.example.com/templates", "https://api.example.com/templates"}
UrlTruthy(u) == u # ""
UrlTrimmed(u) == IF u = " " THEN "" ELSE u
UrlIncludesDemo(u) == u = "https://demo.example.com/templates"

\* the canned templates of the demo variant, by id
DemoTemplates == <<"demo-api-design", "demo-db-design", "demo-prd-template",
                   "demo-architecture", "demo-user-story", "demo-api-doc">>

\* template lists a remote source answers with
RemoteLists == {<<>>, <<"remote-1">>, <<"remote-1", "remote-2">>}

\* how a remote operation can end: the request fails (network error or the
\* host rejects), the server answers with an error status, the payload is no
\* JSON, the payload is JSON but no array, the payload is an array
RemoteEndings == {"failed", "http", "unparsable", "notarray", "array"}

NoError == "null"

TplIdle ==
    /\ tplVariant = "demo"
    /\ tplUrl = ""
    /\ templates = <<>>
    /\ tplError = NoError
    /\ tplLoading = FALSE
    /\ tplReq = <<>>
    /\ tplOutcome = "none"
    /\ tplLoads = 0

TplFrame == UNCHANGED <<encVars, e64Vars, cfgVars, studioVars, chartVars, appVars, hubVars, uplVars, lateVars>>

\* the parent passes another templateUrl
SetTemplateUrl(u) ==
    /\ ~tplLoading
    /\ u # tplUrl
    /\ tplLoads < MaxLoads
    /\ tplUrl' = u
    /\ UNCHANGED <<tplVariant, templates, tplError, tplLoading, tplReq, tplOutcome, tplLoads>>
    /\ TplFrame

\* the continuation of a call of loadTemplates that awaits op runs: one such
\* operation, the oldest, ends
TplEnds(op) ==
    \E i \in DOMAIN tplReq :
        /\ tplReq[i] = op
        /\ \A j \in 1..(i - 1) : tplReq[j] # op
        /\ tplReq' = RemoveAt(tplReq, i)

\* loadTemplates up to its first await, or to its end when it awaits nothing
StartLoad ==
    /\ tplLoads < MaxLoads
    /\ tplLoads' = tplLoads + 1
    /\ tplOutcome' = "none"
    /\ CASE tplVariant = "demo" ->
              IF UrlTruthy(tplUrl) /\ UrlIncludesDemo(tplUrl)
              THEN /\ tplReq' = Append(tplReq, "timer")
                   /\ tplLoading' = TRUE
                   /\ tplError' = NoError
                   /\ UNCHANGED templates
              ELSE IF UrlTruthy(tplUrl)
              THEN /\ tplReq' = Append(tplReq, "fetch_remote_templates")
                   /\ tplLoading' = TRUE
                   /\ tplError' = NoError
                   /\ UNCHANGED templates
              ELSE /\ templates' = DemoTemplates
                   /\ tplError' = NoError
                   /\ tplLoading' = FALSE
                   /\ UNCHANGED tplReq
         [] tplVariant = "fetch" ->
              IF UrlTruthy(tplUrl) /\ UrlTruthy(UrlTrimmed(tplUrl))
              THEN /\ tplReq' = Append(tplReq, "fetch")
                   /\ tplLoading' = TRUE
                   /\ tplError' = NoError
                   /\ UNCHANGED templates
              ELSE /\ tplError' = "no template url"
                   /\ templates' = <<>>
                   /\ tplLoading' = FALSE
                   /\ UNCHANGED tplReq
         [] tplVariant = "command" ->
              IF ~UrlTruthy(tplUrl) \/ ~UrlTruthy(UrlTrimmed(tplUrl))
              THEN /\ tplError' = "no template url"
                   /\ templates' = <<>>
                   /\ tplLoading' = FALSE
                   /\ UNCHANGED tplReq
              ELSE /\ tplReq' = Append(tplReq, "fetch_templates_via_command")
                   /\ tplLoading' = TRUE
                   /\ tplError' = NoError
                   /\ UNCHANGED templates
    /\ UNCHANGED <<tplVariant, tplUrl>>
    /\ UNCHANGED <<encVars, e64Vars, cfgVars, studioVars, chartVars, appVars, hubVars, uplVars,
                   docVars, acVars>>

\* template: the refresh button, disabled while isLoading
LoadTemplates ==
    /\ tplShow
    /\ ~tplLoading
    /\ StartLoad
    /\ UNCHANGED tplShow

\* watch(() => props.show): the parent shows the modal, and loadTemplates runs
OpenLibrary ==
    /\ ~tplShow
    /\ tplShow' = TRUE
    /\ StartLoad

\* the parent hides the modal; the watcher does nothing for false
CloseLibrary ==
    /\ tplShow
    /\ tplShow' = FALSE
    /\ UNCHANGED tplVars
    /\ UNCHANGED <<encVars, e64Vars, cfgVars, studioVars, chartVars, appVars, hubVars, uplVars,
                   docVars, acVars>>

\* demo variant: the 500 ms timer of the demo address ends
DemoTimerEnds ==
    /\ TplEnds("timer")
    /\ templates' = DemoTemplates
    /\ tplLoading' = FALSE
    /\ tplOutcome' = "local"
    /\ UNCHANGED <<tplVariant, tplUrl, tplError, tplLoads>>
    /\ TplFrame

\* demo variant: fetch_remote_templates answers; the host returns a list or rejects
DemoRemoteAnswers(ending, list) ==
    /\ TplEnds("fetch_remote_templates")
    /\ ending \in {"failed", "array"}
    /\ tplOutcome' = ending
    /\ IF ending = "array"
       THEN /\ templates' = list
            /\ UNCHANGED tplError
       ELSE /\ tplError' = "load failed"
            /\ templates' = DemoTemplates
    /\ tplLoading' = FALSE
    /\ UNCHANGED <<tplVariant, tplUrl, tplLoads>>
    /\ TplFrame

\* fetch variant: fetch and response.json() end
FetchAnswers(ending, list) ==
    /\ TplEnds("fetch")
    /\ tplOutcome' = ending
    /\ CASE ending = "array" ->
              /\ templates' = list
              /\ UNCHANGED tplError
         [] ending = "notarray" ->
              /\ templates' = <<>>
              /\ UNCHANGED tplError
         [] OTHER ->
              /\ tplError' = "remote load failed"
              /\ templates' = <<>>
    /\ tplLoading' = FALSE
    /\ UNCHANGED <<tplVariant, tplUrl, tplLoads>>
    /\ TplFrame

\* command variant: fetch_templates_via_command answers with a string, or rejects
CommandAnswers(ending, list) ==
    /\ TplEnds("fetch_templates_via_command")
    /\ ending \in {"failed", "unparsable", "notarray", "array"}
    /\ tplOutcome' = ending
    /\ CASE ending = "array" ->
              /\ templates' = list
              /\ tplError' = NoError
         [] ending = "notarray" ->
              /\ tplError' = "wrong format"
              /\ templates' = <<>>
         [] ending = "unparsable" ->
              /\ tplError' = "parse failed"
              /\ templates' = <<>>
         [] OTHER ->
              /\ tplError' = "load failed"
              /\ templates' = <<>>
    /\ tplLoading' = FALSE
    /\ UNCHANGED <<tplVariant, tplUrl, tplLoads>>
    /\ TplFrame

\* ---------- all other components idle ----------
\* ---------- ConfigModal: the settings stored as 'app-config' ----------
AcAiFields == {"enabled", "apiUrl", "apiKey", "model", "temperature", "maxTokens", "timeout"}

\* the initial value of config in ConfigModal, which resetConfig assigns again
acDefaultConfig ==
    [ai |-> [enabled |-> "false", apiUrl |-> "", apiKey |-> "", model |-> "gpt-4",
             temperature |-> "0.7", maxTokens |-> "2000", timeout |-> "30"],
     remoteTemplateUrl |-> "", uploadUrl |-> "", useCommandLine |-> "false"]

\* an `ai` object with every field at a value the user chose
AcFullAi ==
    [enabled |-> "true", apiUrl |-> "http://my-endpoint", apiKey |-> "sk-1",
     model |-> "gpt-4o", temperature |-> "1.2", maxTokens |-> "4000", timeout |-> "60"]

\* the stored objects of the model: with or without remoteTemplateUrl, with no
\* `ai` object or with one that has any subset of its fields
AcStoredObjects ==
    LET tops == {EmptyObject, [remoteTemplateUrl |-> "https://my/templates"]}
    IN  tops \cup { SpreadMerge(t, [ai |-> Restrict(AcFullAi, D)]) :
                      t \in tops, D \in SUBSET AcAiFields }

\* onMounted of ConfigModal: config.value = { ...config.value, ...parsed }
AcOnMounted ==
    /\ ~acMounted
    /\ acMounted' = TRUE
    /\ LET parsed == JsonParse(acStored)
       IN  IF acStored.kind # "null" /\ ~parsed.throws
           THEN acConfig' = SpreadMerge(acConfig, parsed.value)
           ELSE UNCHANGED acConfig
    /\ UNCHANGED <<acStored, docVars, libVars>>
    /\ UNCHANGED <<encVars, e64Vars, cfgVars, studioVars, chartVars, tplVars, appVars,
                   hubVars, uplVars>>

\* saveConfig of ConfigModal: localStorage.setItem('app-config', JSON.stringify(config.value))
AcSaveConfig ==
    /\ acMounted
    /\ acStored' = ObjectItem(acConfig)
    /\ acStored' # acStored
    /\ UNCHANGED <<acConfig, acMounted, docVars, libVars>>
    /\ UNCHANGED <<encVars, e64Vars, cfgVars, studioVars, chartVars, tplVars, appVars,
                   hubVars, uplVars>>

\* resetConfig of ConfigModal, the confirm() answered yes
AcResetConfig ==
    /\ acMounted
    /\ acConfig' = acDefaultConfig
    /\ acConfig' # acConfig
    /\ UNCHANGED <<acStored, acMounted, docVars, libVars>>
    /\ UNCHANGED <<encVars, e64Vars, cfgVars, studioVars, chartVars, tplVars, appVars,
                   hubVars, uplVars>>

\* no document has been requested and ConfigModal is not mounted
LateIdle ==
    /\ lastRequested = ""
    /\ acStored = NoItem
    /\ acConfig = acDefaultConfig
    /\ acMounted = FALSE
    /\ tplShow = FALSE

MoreIdle == ChartIdle /\ TplIdle /\ AppIdle /\ HubIdle /\ UplIdle /\ LateIdle

\* ---------- state machine: the encoder ----------
vars == <<encVars, e64Vars, cfgVars, studioVars, moreVars>>

\* the encoder has not been called
EncIdle ==
    /\ encText = <<>>
    /\ encTryThrows = FALSE
    /\ encOut = NoOutcome
    /\ encPassed = <<>>
    /\ encAgain = NoOutcome

\* encode64 has not been called
E64Idle ==
    /\ e64Data = <<>>
    /\ e64Out = <<"none">>

\* a call of encodePlantUML is about to be made: any bounded text, and either
\* outcome of the try block
EncInit ==
    /\ encText \in SeqsUpTo(CodeUnits, MaxLen)
    /\ encTryThrows \in BOOLEAN
    /\ encOut = NoOutcome
    /\ encPassed = <<>>
    /\ encAgain = NoOutcome
    /\ E64Idle
    /\ CfgIdle
    /\ StudioIdle
    /\ MoreIdle

\* the call encodePlantUML(encText)
CallEncodePlantUML ==
    /\ encOut.kind = "none"
    /\ encOut' = EncodePlantUML(encText, encTryThrows)
    /\ encPassed' = IF encTryThrows THEN <<>> ELSE EncodeInput(encText)
    /\ UNCHANGED <<encText, encTryThrows, encAgain>>
    /\ UNCHANGED <<e64Vars, cfgVars, studioVars, moreVars>>

\* a second call encodePlantUML(encText), made after the first has ended
CallEncodePlantUMLAgain ==
    /\ encOut.kind # "none"
    /\ encAgain.kind = "none"
    /\ encAgain' = EncodePlantUML(encText, encTryThrows)
    /\ UNCHANGED <<encText, encTryThrows, encOut, encPassed>>
    /\ UNCHANGED <<e64Vars, cfgVars, studioVars, moreVars>>

EncNext ==
    \/ CallEncodePlantUML
    \/ CallEncodePlantUMLAgain

SpecEnc == EncInit /\ [][EncNext]_vars

\* ---------- state machine: encode64 on an arbitrary byte string ----------
\* byte values the arguments of encode64 are drawn from
ByteSamples == {0, 1, 3, 15, 16, 63, 64, 97, 128, 252, 255}

E64Init ==
    /\ e64Data \in SeqsUpTo(ByteSamples, MaxBytes)
    /\ e64Out = <<"none">>
    /\ EncIdle
    /\ CfgIdle
    /\ StudioIdle
    /\ MoreIdle

\* the call encode64(e64Data)
CallEncode64 ==
    /\ e64Out = <<"none">>
    /\ e64Out' = <<"returned", Encode64(e64Data)>>
    /\ UNCHANGED e64Data
    /\ UNCHANGED <<encVars, cfgVars, studioVars, moreVars>>

E64Next == CallEncode64

SpecE64 == E64Init /\ [][E64Next]_vars

\* ---------- state machine: loading the stored configuration ----------
\* the application starts with any stored item
CfgInit ==
    /\ localStorage \in {NoItem, CorruptItem} \cup { ObjectItem(o) : o \in StoredObjects }
    /\ modalMounted = FALSE
    /\ config = defaultConfig
    /\ watchPending = FALSE
    /\ lastCfgOp = "none"
    /\ StudioIdle
    /\ EncIdle
    /\ E64Idle
    /\ MoreIdle

CfgNext ==
    \/ ModalOnMounted
    \/ ModalFlushWatcher
    \/ \E p \in Providers : SelectProvider(p)
    \/ ResetConfig
    \/ StudioOnMounted
    \/ \E i \in DOMAIN pending : ListDocumentsResolve(i, HostFiles)
    \/ \E i \in DOMAIN pending : ListDocumentsReject(i)

SpecCfg == CfgInit /\ [][CfgNext]_vars

\* ---------- state machine: the metrics dashboard ----------
ChartSpecInit ==
    /\ ChartInit
    /\ TplIdle
    /\ AppIdle
    /\ HubIdle
    /\ UplIdle
    /\ LateIdle
    /\ EncIdle
    /\ E64Idle
    /\ CfgIdle
    /\ StudioIdle

ChartNext == ReadChartData

SpecChart == ChartSpecInit /\ [][ChartNext]_vars

\* ---------- state machine: the template library ----------
TplInit ==
    /\ tplVariant \in Variants
    /\ tplUrl \in Urls
    /\ templates = <<>>
    /\ tplError = NoError
    /\ tplLoading = FALSE
    /\ tplReq = <<>>
    /\ tplOutcome = "none"
    /\ tplLoads = 0
    /\ ChartIdle
    /\ AppIdle
    /\ HubIdle
    /\ UplIdle
    /\ LateIdle
    /\ EncIdle
    /\ E64Idle
    /\ CfgIdle
    /\ StudioIdle

TplNext ==
    \/ \E u \in Urls : SetTemplateUrl(u)
    \/ LoadTemplates
    \/ OpenLibrary
    \/ CloseLibrary
    \/ DemoTimerEnds
    \/ \E e \in RemoteEndings, l \in RemoteLists : DemoRemoteAnswers(e, l)
    \/ \E e \in RemoteEndings, l \in RemoteLists : FetchAnswers(e, l)
    \/ \E e \in RemoteEndings, l \in RemoteLists : CommandAnswers(e, l)

SpecTpl == TplInit /\ [][TplNext]_vars

\* ---------- state machine: the handlers of the application ----------
AppInit ==
    /\ view \in Views
    /\ isSaving = FALSE
    /\ HubIdle
    /\ uplShow = FALSE
    /\ uplTitle = ""
    /\ isUploading = FALSE
    /\ uploadResult = NoResult
    /\ showSuccess = FALSE
    /\ uplTimers = 0
    /\ uplEmitted = FALSE
    /\ localTemplates \in StoredTemplateItems
    /\ storageFull \in BOOLEAN
    /\ (view # "upload") => (localTemplates = NoTemplatesItem /\ ~storageFull)
    /\ ChartIdle
    /\ TplIdle
    /\ LateIdle
    /\ EncIdle
    /\ E64Idle
    /\ CfgIdle
    /\ StudioIdle

\* the host answers an outstanding command of the editor view
StudioAnswer ==
    \E i \in DOMAIN pending :
        \/ ListDocumentsResolve(i, HostFiles)
        \/ ListDocumentsReject(i)
        \/ GenerateFromInputResolve(i)
        \/ GenerateFromInputReject(i)
        \/ GenerateFromSelectionResolve(i)
        \/ GenerateFromSelectionReject(i)
        \/ SaveDocumentResolve(i)
        \/ SaveDocumentReject(i)
        \/ \E ok \in BOOLEAN : SaveListAnswers(i, ok)

\* the host answers an outstanding command of the CodeHub assistant
HubAnswer ==
    \E i \in DOMAIN pending :
        \/ \E ok \in BOOLEAN, c \in CommentLists : GetReviewCommentsAnswers(i, ok, c)
        \/ \E ok \in BOOLEAN : OpenWindowAnswers(i, ok)
        \/ \E ok \in BOOLEAN : CloseWindowAnswers(i, ok)
        \/ \E ok \in BOOLEAN, c \in CommentLists : CaptureAnswers(i, ok, c)
        \/ \E ok \in BOOLEAN : ProcessRAGAnswers(i, ok)
        \/ \E ok \in BOOLEAN : AddCommentAnswers(i, ok)

\* the host answers save_template
UploadAnswer == \E i \in DOMAIN pending : \E ok \in BOOLEAN : SaveTemplateAnswers(i, ok)

\* the user opens one of the components and works with it
AppNext ==
    \/ view = "studio" /\ StudioOnMounted
    \/ ToggleAiPanel
    \/ \E t \in Descs : TypeAiInput(t)
    \/ \E t \in Descs : SelectText(t)
    \/ GeneratePlantUMLFromInput
    \/ GeneratePlantUMLFromSelection
    \/ \E n \in {"", " "} : TypeCurrentFile(n)
    \/ \E a \in PromptAnswers : HandleSave(a)
    \/ StudioAnswer
    \/ view = "codehub" /\ HubOnMounted
    \/ \E u \in MrUrls : TypeMrUrl(u)
    \/ OpenCodeHubWindow
    \/ CloseCodeHubWindow
    \/ CaptureComments
    \/ ProcessRAG
    \/ \E c \in {"", "manual-1"} : AddManualComment(c)
    \/ HubAnswer
    \/ view = "upload" /\ OpenTemplateUpload
    \/ \E t \in Titles : TypeTitle(t)
    \/ HandleUpload
    \/ CloseModal
    \/ UploadAnswer
    \/ UploadTimerFires

\* every command the host has received is answered, and a timer that was set fires
AppFairness ==
    /\ WF_vars(StudioAnswer)
    /\ WF_vars(HubAnswer)
    /\ WF_vars(UploadAnswer)
    /\ WF_vars(UploadTimerFires)

SpecApp == AppInit /\ [][AppNext]_vars /\ AppFairness

\* ---------- state machine: the design studio ----------
\* stored items the studio starts with: none, or a complete configuration of a
\* real provider
StudioStoredItems == {NoItem, ObjectItem(FullStored("openai"))}

Init ==
    /\ localStorage \in StudioStoredItems
    /\ modalMounted = FALSE
    /\ config = defaultConfig
    /\ watchPending = FALSE
    /\ lastCfgOp = "none"
    /\ StudioIdle
    /\ EncIdle
    /\ E64Idle
    /\ MoreIdle

Next ==
    \/ StudioOnMounted
    \/ \E i \in DOMAIN pending : ListDocumentsResolve(i, HostFiles)
    \/ \E i \in DOMAIN pending : ListDocumentsReject(i)
    \/ \E i \in DOMAIN HostFiles : LoadDocument(HostFiles[i])
    \/ \E i \in DOMAIN pending : LoadDocumentResolve(i)
    \/ \E i \in DOMAIN pending : LoadDocumentReject(i)
    \/ GeneratePlantUMLFromInput
    \/ \E i \in DOMAIN pending : GenerateFromInputResolve(i)
    \/ \E i \in DOMAIN pending : GenerateFromInputReject(i)
    \/ GeneratePlantUMLFromSelection
    \/ \E i \in DOMAIN pending : GenerateFromSelectionResolve(i)
    \/ \E i \in DOMAIN pending : GenerateFromSelectionReject(i)
    \/ ToggleAiPanel
    \/ \E d \in Descs : TypeAiInput(d)
    \/ \E d \in Selections : SelectText(d)
    \/ EditDocument

Spec == Init /\ [][Next]_vars

\* ---------- claims about the encoder ----------
PlantUMLAlphabet == { PlantUMLChars[i] : i \in DOMAIN PlantUMLChars }

\* C1: every character of the string encodePlantUML returns belongs to the
\* alphabet 0-9A-Za-z-_ (no '=', '+' or '/'), whichever path produced it.
C1_OutputInAlphabet ==
    encOut.kind = "return" =>
        \A i \in DOMAIN encOut.value : encOut.value[i] \in PlantUMLAlphabet

\* C2: encodePlantUML never throws: every call, also one whose try block
\* fails, returns a string.
C2_NeverThrows == encOut.kind # "throw"

\* C3: when the compression step fails, the call returns a non-empty string
\* equal to the standard base64 of the UTF-8 bytes of the input text.
C3_FallbackIsBase64 ==
    (encTryThrows /\ encOut.kind # "none") =>
        /\ encOut.kind = "return"
        /\ encOut.value # <<>>
        /\ encOut.value = Btoa(TextEncoderEncode(encText))

\* C4: the length of the string encodePlantUML returns is a multiple of 4,
\* for every input, the empty one included.
C4_LengthMultipleOf4 ==
    encOut.kind = "return" => Len(encOut.value) % 4 = 0

\* C4 witness: the empty text was encoded through the compression path; its
\* compressed form is not a whole number of 3-byte groups and the token is
\* not empty.
C4_Witness ==
    /\ encOut.kind = "return"
    /\ encOut.path = "deflate"
    /\ encText = <<>>
    /\ Len(encPassed) % 3 # 0
    /\ Len(encOut.value) > 0

\* the three bytes of group k (0-based) of data, missing ones taken as 0
GroupByte(data, k, j) == IF 3 * k + j <= Len(data) THEN data[3 * k + j] ELSE 0

\* the 24-bit number formed by group k
GroupValue(data, k) ==
    GroupByte(data, k, 1) * 65536 + GroupByte(data, k, 2) * 256 + GroupByte(data, k, 3)

\* C5: encode64 returns 4*ceil(n/3) characters, and group k of the bytes
\* yields, in order, the alphabet characters whose indices are the four 6-bit
\* digits of the group (b1>>2, ((b1&3)<<4)|(b2>>4), ((b2&15)<<2)|(b3>>6), b3&63).
C5_Encode64Groups ==
    e64Out[1] = "returned" =>
        LET out == e64Out[2]
            n == Len(e64Data)
            groups == (n + 2) \div 3
        IN  /\ Len(out) = 4 * groups
            /\ \A k \in 0..(groups - 1) : \A j \in 0..3 :
                   out[4 * k + j + 1] =
                       PlantUMLChars[((GroupValue(e64Data, k) \div Pow2(6 * (3 - j))) % 64) + 1]

\* C5 witness: encode64 has returned for a byte string whose last group is
\* incomplete and whose bytes set bits in every 6-bit digit.
C5_Witness ==
    /\ e64Out[1] = "returned"
    /\ Len(e64Data) = 4
    /\ e64Data[1] = 255
    /\ e64Data[2] = 97
    /\ Len(e64Out[2]) = 8

\* C6: the bytes handed to encode64 are a raw DEFLATE stream of the UTF-8
\* bytes of the input, without zlib header or trailer.
C6_PassesRawDeflate ==
    (encOut.kind = "return" /\ encOut.path = "deflate") =>
        encPassed = DeflateRaw(TextEncoderEncode(encText))

\* ---------- claims about the stored configuration ----------
\* the value the claim gives field f after loading the stored object o
MergedValue(o, f) == IF f \in DOMAIN o THEN o[f] ELSE defaultConfig[f]

\* C7: after a stored configuration object is loaded at startup, every field
\* of the in-memory configuration is defined, a field absent from storage at
\* its default and a field present in storage at the stored value, in the
\* config modal (once its watchers have run) and in the design studio.
C7_LoadedConfigComplete ==
    localStorage.kind = "object" =>
        /\ (modalMounted /\ ~watchPending) =>
               \A f \in Fields : Get(config, f) = MergedValue(localStorage.obj, f)
        /\ mounted =>
               \A f \in Fields : Get(aiConfig, f) = MergedValue(localStorage.obj, f)

\* ---------- claims about the design studio ----------
GenerateCommands == {"generate_plantuml", "generate_plantuml_from_text"}
WriterCommands == GenerateCommands \cup {"load_document"}

\* positions in pending of the outstanding commands among cmds
Outstanding(cmds) == { i \in DOMAIN pending : pending[i].cmd \in cmds }

\* C8: at most one diagram-generation request is outstanding, and while one
\* is, isGenerating is true and both generate controls are disabled.
C8_OneGenerationAtATime ==
    /\ Cardinality(Outstanding(GenerateCommands)) <= 1
    /\ Outstanding(GenerateCommands) # {} =>
           (isGenerating /\ GenerateInputDisabled /\ GenerateSelectionDisabled)

\* C8 witness: a generation request is outstanding while the panel is open with
\* a non-blank description typed and a non-blank text selected, so that only
\* the disabled controls keep a second request from starting.
C8_Witness ==
    /\ Outstanding(GenerateCommands) # {}
    /\ showAiPanel
    /\ ~IsBlank(aiInput)
    /\ ~IsBlank(selection)
    /\ nextId < MaxRequests

\* C9, one step: when the host answers a generation request a generation ends,
\* and when a generation ends the editor and docContent become the editor's
\* content with exactly one diagram appended: the host's result if the command
\* succeeded, the diagram of generateDemoPlantUML if it failed, and the demo
\* diagram of the selected text if the generation ran locally.
C9_Step ==
    /\ \A i \in DOMAIN pending :
         (pending[i].cmd \in GenerateCommands /\ pending' = RemoveAt(pending, i)) =>
            /\ generated' = generated + 1
            /\ IF lastReply' = "resolved"
               THEN editorContent' = Append(editorContent, HostDiagram(pending[i].arg))
               ELSE editorContent' = Append(editorContent,
                        GenerateDemoPlantUML(IF pending[i].cmd = "generate_plantuml"
                                             THEN aiInput ELSE pending[i].arg))
    /\ (generated' # generated /\ pending' = pending) =>
            editorContent' = Append(editorContent, GenerateDemoPlantUML(selection))
    /\ generated' # generated =>
            /\ generated' = generated + 1
            /\ docContent' = editorContent'
            /\ Len(editorContent') = Len(editorContent) + 1
            /\ editorContent'[Len(editorContent')].kind = "chart"
            /\ SubSeq(editorContent', 1, Len(editorContent)) = editorContent

\* C9: every diagram generation started with a non-blank description ends
\* with exactly one diagram block appended to the document: the host's result
\* when the host command succeeds, the canned keyword-matched diagram when it
\* fails.
C9_GenerationAppendsOneDiagram == [][C9_Step]_vars

\* C9 witness: the host rejected a generation request and the document now
\* ends with the demo diagram matched by keyword.
C9_Witness ==
    /\ lastReply = "rejected"
    /\ toastMessage = "demo diagram generated"
    /\ Len(editorContent) >= 2
    /\ editorContent[Len(editorContent)].kind = "chart"
    /\ editorContent[Len(editorContent)].src = "demo-login"
    /\ ~isGenerating

\* C10: no two asynchronous operations that write the document buffer
\* (loadDocument, generatePlantUMLFromInput, generatePlantUMLFromSelection)
\* are outstanding at the same time.
C10_SingleOutstandingWriter == Cardinality(Outstanding(WriterCommands)) <= 1

C17_ResetRestoresDefaults ==
    (lastCfgOp = "reset" /\ ~watchPending) =>
        \A f \in Fields : Get(config, f) = Get(defaultConfig, f)
\* C20: chartData holds the min(7, n) records of metrics with the latest
\* dates, in ascending date order, and computing it leaves metrics as it was.
C20_ChartDataLatestSeven ==
    chartData[1] = "value" =>
        LET chart == chartData[2]
            n == Len(metrics)
            kept == { chart[i] : i \in DOMAIN chart }
            all == { metrics[i] : i \in DOMAIN metrics }
        IN  /\ Len(chart) = Min(ChartWindow, n)
            /\ Cardinality(kept) = Len(chart)
            /\ kept \subseteq all
            /\ \A i \in 1..(Len(chart) - 1) : chart[i].date <= chart[i + 1].date
            /\ \A r \in all \ kept : \A c \in kept : r.date <= c.date
            /\ \A i \in DOMAIN metrics : metrics[i].id = i

\* C20 witness: chartData was computed from eight records that were not in
\* date order, so that one record is left out and the order had to change.
C20_Witness ==
    /\ chartData[1] = "value"
    /\ Len(metrics) = 8
    /\ Len(chartData[2]) = 7
    /\ \E i \in 1..7 : metrics[i].date > metrics[i + 1].date
\* ---------- claims about the template library ----------
\* C13: when the remote fetch of the templates fails, loadTemplates ends with
\* the template list equal to the canned demo templates, in every variant.
C13_FailedFetchFallsBackToDemo ==
    (tplOutcome \in {"failed", "http"} /\ tplReq = <<>>) =>
        templates = DemoTemplates

\* C14: when the remote payload is no JSON or no array, loadTemplates of the
\* fetch variant and of the command variant ends with an empty template list,
\* an error indicator that is not null, and isLoading false.
C14_BadPayloadGivesEmptyAndError ==
    (tplVariant \in {"fetch", "command"} /\ tplOutcome \in {"unparsable", "notarray"}
        /\ tplReq = <<>>) =>
        /\ templates = <<>>
        /\ tplError # NoError
        /\ ~tplLoading
OnlySpaces(text) == \A i \in DOMAIN text : text[i] = " "

\* everything but the message a handler of the editor view shows
AllButToast ==
    <<encVars, e64Vars, cfgVars, moreVars, mounted, editor, editorContent, docContent,
      currentFile, savedFiles, isGenerating, aiInput, showAiPanel, selectedText, selection,
      aiConfig, pending, nextId, edits, lastReply, generated>>

\* everything but the alert a handler of the CodeHub assistant shows
AllButAlert ==
    <<encVars, e64Vars, cfgVars, studioVars, chartVars, tplVars, appVars, uplVars, lateVars,
      hubMounted, mrUrl, isWebviewOpen, isCapturing, isProcessingRAG, reviewComments,
      ragPairs, activeTab>>

\* everything but the result line of the upload modal
AllButUploadResult ==
    <<encVars, e64Vars, cfgVars, studioVars, chartVars, tplVars, appVars, hubVars, lateVars,
      uplShow, uplTitle, isUploading, showSuccess, uplTimers, uplEmitted, localTemplates,
      storageFull>>

\* C12, one step: a handler called while its precondition fails changes the
\* message it shows and nothing else
C12_Step ==
    /\ (GeneratePlantUMLFromInput /\ OnlySpaces(aiInput)) => UNCHANGED AllButToast
    /\ (GeneratePlantUMLFromSelection /\ OnlySpaces(GetSelectedText)) => UNCHANGED AllButToast
    /\ (OpenCodeHubWindow /\ mrUrl \in {"", " "}) => UNCHANGED AllButAlert
    /\ (ProcessRAG /\ reviewComments = <<>>) => UNCHANGED AllButAlert
    /\ (HandleUpload /\ (uplTitle \in {"", " "})) => UNCHANGED AllButUploadResult

\* C12: when the local precondition of a handler fails (blank description,
\* blank selection, blank MR address, invalid form, no comments) the handler
\* issues no host command, sets no busy flag and changes only the message.
C12_FailedPreconditionChangesNothing == [][C12_Step]_vars

\* C12 witness: the open button was pressed with a blank MR address: the alert
\* is shown, the window is closed and no open command is outstanding.
C12_Witness ==
    /\ hubMounted
    /\ mrUrl = " "
    /\ hubAlert = "enter the MR link"
    /\ ~isWebviewOpen
    /\ \A i \in DOMAIN pending : pending[i].cmd # "open_codehub_window"

\* the local-storage fallback of an upload can succeed in this state
FallbackWorks == localTemplates.kind # "notarray" /\ ~storageFull

\* the step in which the host rejects the i-th outstanding command, a save_template
SaveTemplateRejected(i) ==
    /\ pending[i].cmd = "save_template"
    /\ pending' = RemoveAt(pending, i)
    /\ lastReply' = "rejected"

\* C15, one step: a rejected save_template ends in the success state with the
\* template in local storage and the closing timer set, unless the fallback
\* itself fails; and only such a failure ends an upload in the failure state
C15_Step ==
    /\ \A i \in DOMAIN pending : SaveTemplateRejected(i) =>
          IF FallbackWorks
          THEN /\ uploadResult' = SuccessResult
               /\ showSuccess'
               /\ uplTimers' = uplTimers + 1
               /\ localTemplates'.kind = "list"
               /\ \E k \in DOMAIN localTemplates'.list : localTemplates'.list[k] = pending[i].arg
               /\ ~isUploading'
          ELSE /\ uploadResult' = FailureResult
               /\ ~isUploading'
    /\ (uploadResult' = FailureResult /\ pending' # pending) =>
          (lastReply' = "rejected" /\ ~FallbackWorks)

\* C15: when save_template fails, handleUpload stores the template in local
\* storage and the upload ends in the success state; the failure state is
\* reached only when the local-storage fallback itself fails.
C15_UploadFallsBackToLocalStorage == [][C15_Step]_vars

\* C15 witness: save_template was rejected with nothing stored before; the
\* template is now the one stored, the result is success and the timer is set.
C15_Witness ==
    /\ lastReply = "rejected"
    /\ uploadResult = SuccessResult
    /\ showSuccess
    /\ uplTimers = 1
    /\ localTemplates.kind = "list"
    /\ Len(localTemplates.list) = 1

\* C18: handleSave never issues save_document with a blank file name: every
\* outstanding save_document carries a name that is not empty once trimmed.
C18_NoBlankFilenameSaved ==
    \A i \in DOMAIN pending :
        pending[i].cmd = "save_document" => pending[i].arg \notin {"", " "}

\* C19, one step: when storage accepts the write, saveToLocalStorage puts the
\* new template in front of the stored list, which it keeps in its order; a
\* stored text that is no JSON counts as the empty list and the save succeeds
C19_Step ==
    \A i \in DOMAIN pending : (SaveTemplateRejected(i) /\ ~storageFull) =>
        /\ localTemplates.kind = "list" =>
               localTemplates' = TemplatesItem(<<pending[i].arg>> \o localTemplates.list)
        /\ localTemplates.kind \in {"corrupt", "null"} =>
               /\ localTemplates' = TemplatesItem(<<pending[i].arg>>)
               /\ uploadResult' = SuccessResult

DemoMode == Get(aiConfig, "provider") = "demo" \/ ~Truthy(Get(aiConfig, "apiKey"))

\* C24: while the AI configuration is in demo mode no generation handler has
\* issued a host AI command: no generate_plantuml and no
\* generate_plantuml_from_text is outstanding.
C24_DemoModeIssuesNoHostCommand == DemoMode => Outstanding(GenerateCommands) = {}

\* ---------- claims about one session of the upload modal ----------
\* C28: between a successful upload and the automatic close the upload control
\* cannot start a second upload: while the modal is shown with a closing
\* timer set, the upload button is disabled.
C28_NoSecondUploadDuringDelay == (uplShow /\ uplTimers > 0) => UploadDisabled

\* ---------- claims about the models offered by the AI config modal ----------
\* modelOptions of AIConfigModal.vue
modelOptions ==
    [openai |-> {"gpt-4", "gpt-4-turbo", "gpt-3.5-turbo", "gpt-3.5-turbo-16k"},
     azure |-> {"gpt-4", "gpt-4-32k", "gpt-35-turbo", "gpt-35-turbo-16k"},
     custom |-> {"llama2", "codellama", "mistral", "qwen", "chatglm"},
     demo |-> {"demo"}]

\* C23: in every reachable state of the AI config modal, the initial one
\* included, config.model is one of the entries of modelOptions[config.provider].
C23_ModelAmongOptions ==
    /\ Get(config, "provider") \in DOMAIN modelOptions
    /\ Get(config, "model") \in modelOptions[Get(config, "provider")]

\* ---------- AIConfigModal.vue: editing, saving and reloading ----------
\* the address the user types in place of a preset
EditedApiUrl == "http://my-endpoint"

\* template: the address field, rendered when the provider is not 'demo',
\* v-model="config.apiUrl"
EditApiUrl(u) ==
    /\ modalMounted
    /\ ~watchPending
    /\ Get(config, "provider") # "demo"
    /\ u # Get(config, "apiUrl")
    /\ config' = SpreadMerge(config, [apiUrl |-> u])
    /\ lastCfgOp' = "edit"
    /\ UNCHANGED <<localStorage, modalMounted, watchPending>>
    /\ UNCHANGED <<encVars, e64Vars, studioVars, moreVars>>

\* template: the model select, its options modelOptions[config.provider],
\* v-model="config.model"
EditModel(m) ==
    /\ modalMounted
    /\ ~watchPending
    /\ Get(config, "provider") \in DOMAIN modelOptions
    /\ m \in modelOptions[Get(config, "provider")]
    /\ m # Get(config, "model")
    /\ config' = SpreadMerge(config, [model |-> m])
    /\ lastCfgOp' = "edit"
    /\ UNCHANGED <<localStorage, modalMounted, watchPending>>
    /\ UNCHANGED <<encVars, e64Vars, studioVars, moreVars>>

\* saveConfig: localStorage.setItem(key, JSON.stringify(config.value))
SaveConfig ==
    /\ modalMounted
    /\ ~watchPending
    /\ localStorage' = JsonStringify(config)
    /\ lastCfgOp' = "save"
    /\ UNCHANGED <<config, modalMounted, watchPending>>
    /\ UNCHANGED <<encVars, e64Vars, studioVars, moreVars>>

\* the page is loaded again: the modal is constructed anew, config a copy of
\* defaultConfig, and localStorage keeps its item
ReloadPage ==
    /\ modalMounted
    /\ ~watchPending
    /\ localStorage.kind = "object"
    /\ modalMounted' = FALSE
    /\ config' = defaultConfig
    /\ watchPending' = FALSE
    /\ lastCfgOp' = "none"
    /\ UNCHANGED localStorage
    /\ UNCHANGED <<encVars, e64Vars, studioVars, moreVars>>

\* ---------- state machine: saving the configuration and loading it again ----------
RoundInit ==
    /\ CfgIdle
    /\ StudioIdle
    /\ EncIdle
    /\ E64Idle
    /\ MoreIdle

RoundNext ==
    \/ ModalOnMounted
    \/ ModalFlushWatcher
    \/ \E p \in Providers : SelectProvider(p)
    \/ \E u \in {EditedApiUrl} : EditApiUrl(u)
    \/ \E m \in UNION { modelOptions[p] : p \in Providers } : EditModel(m)
    \/ SaveConfig
    \/ ReloadPage

SpecRound == RoundInit /\ [][RoundNext]_vars

\* C22: a configuration stored by saveConfig and loaded by loadConfig in a
\* freshly mounted modal has, once the pending watcher has run, the provider,
\* apiUrl and model that were saved.
C22_SaveLoadRoundTrip ==
    (lastCfgOp = "load" /\ modalMounted /\ ~watchPending /\ localStorage.kind = "object") =>
        \A f \in {"provider", "apiUrl", "model"} :
            Get(config, f) = Get(localStorage.obj, f)

\* ---------- claims about edits made while a generation is running ----------
\* C26, one step: when a generation request completes, every item the editor
\* held just before the completion, the text typed while the request was
\* outstanding included, is still there at its place, the diagram comes after
\* them, and docContent is the editor's new content
C26_Step ==
    \A i \in DOMAIN pending :
        (pending[i].cmd \in GenerateCommands /\ pending' = RemoveAt(pending, i) /\ editor) =>
            /\ Len(editorContent') = Len(editorContent) + 1
            /\ \A k \in DOMAIN editorContent : editorContent'[k] = editorContent[k]
            /\ editorContent'[Len(editorContent')].kind = "chart"
            /\ docContent' = editorContent'

\* C26: text the user edits into the document while a generation request is
\* outstanding is never lost: the diagram is appended to the editor content as
\* it is when the request completes.
C26_EditsDuringGenerationKept == [][C26_Step]_vars

\* C26 witness: a generation has completed and the document holds, before the
\* diagram, a text that was typed while the request was outstanding.
C26_Witness ==
    /\ generated > 0
    /\ ~isGenerating
    /\ Len(editorContent) >= 2
    /\ editorContent[Len(editorContent)].kind = "chart"
    /\ editorContent[Len(editorContent) - 1] = TextItem("typed while generating")

\* ---------- state machine: the settings modal ----------
AcInit ==
    /\ acStored \in {NoItem, CorruptItem} \cup { ObjectItem(o) : o \in AcStoredObjects }
    /\ acConfig = acDefaultConfig
    /\ acMounted = FALSE
    /\ lastRequested = ""
    /\ tplShow = FALSE
    /\ ChartIdle
    /\ TplIdle
    /\ AppIdle
    /\ HubIdle
    /\ UplIdle
    /\ EncIdle
    /\ E64Idle
    /\ CfgIdle
    /\ StudioIdle

AcNext ==
    \/ AcOnMounted
    \/ AcSaveConfig
    \/ AcResetConfig

SpecAc == AcInit /\ [][AcNext]_vars

\* C21: after the settings modal has loaded a stored object whose `ai` object
\* lacks some field, config.ai has every field defined, a field the stored
\* `ai` object lacks at its default value.
C21_NestedMergeComplete ==
    (acMounted /\ acStored.kind = "object" /\ "ai" \in DOMAIN acStored.obj) =>
        \A f \in AcAiFields :
            /\ f \in DOMAIN acConfig["ai"]
            /\ f \notin DOMAIN acStored.obj["ai"] => acConfig["ai"][f] = acDefaultConfig["ai"][f]

\* ---------- state machine: opening documents of a host that holds several ----------
DocsInit ==
    /\ CfgIdle
    /\ StudioIdle
    /\ EncIdle
    /\ E64Idle
    /\ MoreIdle

\* the host answers every load_document with the content of the document
DocsNext ==
    \/ StudioOnMounted
    \/ \E i \in DOMAIN pending : ListDocumentsResolve(i, ManyHostFiles)
    \/ \E i \in DOMAIN pending : ListDocumentsReject(i)
    \/ \E i \in DOMAIN ManyHostFiles : LoadDocument(ManyHostFiles[i])
    \/ \E i \in DOMAIN pending : LoadDocumentResolve(i)
    \/ EditDocument

SpecDocs == DocsInit /\ [][DocsNext]_vars

\* C25: when the loadDocument requests have all completed, currentFile is the
\* document the user requested last, and docContent is its content as long as
\* the user has not edited it.
C25_LastRequestedDocumentWins ==
    (lastRequested # "" /\ Outstanding({"load_document"}) = {}) =>
        /\ currentFile = lastRequested
        /\ edits = 0 => docContent = HostContent(lastRequested)

\* ---------- claims about the review assistant ----------
\* C29: whenever ragPairs is not empty it was computed from the review
\* comments now held in reviewComments.
C29_PairsMatchComments == ragPairs # <<>> => ragPairs = HostPairsOf(reviewComments)

\* ---------- claims about the loading indicator of the template library ----------
\* C27: in the template library isLoading is true exactly while at least one
\* template load is outstanding, whatever the sequence of open, close, reopen
\* and refresh.
C27_LoadingWhileOutstanding == tplLoading <=> (tplReq # <<>>)
====
